---- MODULE Spec2Model ----
(***************************************************************************)
(* Model of the backtesting engine run_backtest (src/app.py), the replay   *)
(* of the scoring rule over a merged multi-symbol timeline, and of the     *)
(* scanners: scan_universe (src/app.py) and the parallel scan_symbols with *)
(* its data router (src/api/scanner_core.py), with the pure functions      *)
(* score_row and position_sizing they share.                               *)
(*                                                                         *)
(* Numbers.  Prices, equity and P&L are floating point in the source.      *)
(* They are modelled as exact fractions <<n, d>> with d >= 0, kept in      *)
(* lowest terms.  d = 0 stands for the IEEE values a division by zero      *)
(* yields on numpy floats: <<1,0>> is +inf, <<-1,0>> is -inf and <<0,0>>   *)
(* is NaN.  Rounding error is not modelled.                                *)
(***************************************************************************)
EXTENDS Integers, Sequences, FiniteSets, TLC

VARIABLES
    pc,               \* position in run_backtest
    args,             \* the call's arguments
    env,              \* what the data source can deliver to this call
    li,               \* pre-load loop: index of the next symbol
    fetches,          \* number of get_ohlcv calls made so far
    symbol_data,      \* symbols that loaded, in load order
    errors,           \* results['errors']
    date_index,       \* the timeline dates replayed so far, last = current
    si,               \* replay loop: index into symbol_data
    any_row,          \* some symbol had a row on the current date
    rows_seen,        \* symbols that had a row on some date so far
    current_equity,
    day_start_equity,
    max_equity,
    max_drawdown,
    active_positions, \* symbol -> position, a dict
    trades,           \* results['trades']
    equity_curve,     \* results['equity_curve']
    daily_returns,
    total_trades,
    winning_trades,
    entries,          \* history: number of positions opened so far
    entry_equity,     \* history: symbol -> equity when its position opened
    last,             \* history: the bar step just taken
    result,           \* the returned bundle
    market,           \* symbol -> what each provider delivers for it
    scan_pc,          \* position in scan_symbols (src/api/scanner_core.py)
    scan_args,        \* scan_symbols' arguments
    pending,          \* futures submitted and not yet yielded by as_completed
    scan_results,     \* scan_symbols' results list
    scan_errors,      \* scan_symbols' errors list
    attempts,         \* history: symbol -> providers the router called, in order
    univ_pc,          \* position in scan_universe (src/app.py)
    univ_args,        \* scan_universe's arguments
    ui,               \* scan_universe: index of the next symbol
    rows,             \* scan_universe's rows list, then the sorted df_rows
    errs,             \* scan_universe's errs list
    scored,           \* history: every row handed to score_row, with its path
    call,             \* the last call of a pure function: input and output
    shape,            \* the OHLCV series a provider holds, as its generator
    ohlcv,            \* the bars of that series delivered so far
    averages,         \* compute_features: the running averages after them
    computed          \* compute_features: the frame of their rows

vars == <<pc, args, env, li, fetches, symbol_data, errors,
          date_index, si, any_row, rows_seen, current_equity,
          day_start_equity, max_equity, max_drawdown, active_positions,
          trades, equity_curve, daily_returns, total_trades, winning_trades,
          entries, entry_equity, last, result,
          market, scan_pc, scan_args, pending, scan_results, scan_errors,
          attempts, univ_pc, univ_args, ui, rows, errs, scored, call,
          shape, ohlcv, averages, computed>>

-----------------------------------------------------------------------------
(* Exact fractions with the IEEE specials                                   *)

Abs(x) == IF x < 0 THEN -x ELSE x

Sign(x) == IF x < 0 THEN -1 ELSE IF x > 0 THEN 1 ELSE 0

RECURSIVE GCD(_, _)
GCD(a, b) == IF b = 0 THEN a ELSE GCD(b, a % b)

Norm(n, d) ==
    IF d = 0 THEN <<Sign(n), 0>>
    ELSE LET g == GCD(Abs(n), Abs(d))
         IN  <<Sign(d) * (n \div g), Abs(d) \div g>>

R(x) == <<x, 1>>

Inf == <<1, 0>>

\* the numerators of a and b over their least common denominator
Scaled(a, b) ==
    LET g == GCD(a[2], b[2])
    IN  <<a[1] * (b[2] \div g), b[1] * (a[2] \div g), a[2] * (b[2] \div g)>>

RAdd(a, b) ==
    IF a[2] # 0 /\ b[2] # 0
    THEN LET s == Scaled(a, b) IN Norm(s[1] + s[2], s[3])
    ELSE IF a[2] # 0 THEN b
    ELSE IF b[2] # 0 THEN a
    ELSE IF a = b THEN a ELSE <<0, 0>>

RNeg(a) == <<-a[1], a[2]>>

RSub(a, b) == RAdd(a, RNeg(b))

\* a * b, cancelling across before multiplying
RMul(a, b) ==
    LET g1 == GCD(Abs(a[1]), b[2])
        g2 == GCD(Abs(b[1]), a[2])
        n1 == IF g1 = 0 THEN a[1] ELSE a[1] \div g1
        d2 == IF g1 = 0 THEN b[2] ELSE b[2] \div g1
        n2 == IF g2 = 0 THEN b[1] ELSE b[1] \div g2
        d1 == IF g2 = 0 THEN a[2] ELSE a[2] \div g2
    IN  Norm(n1 * n2, d1 * d2)

\* a / b; x / 0 is inf, -inf or NaN by the sign of x
RDiv(a, b) ==
    IF b = <<0, 0>> THEN <<0, 0>>
    ELSE IF b[1] = 0 THEN RMul(a, Inf)
    ELSE RMul(a, <<Sign(b[1]) * b[2], Abs(b[1])>>)

RAbs(a) == <<Abs(a[1]), a[2]>>

\* a < b; false when either side is NaN, as for floats
RLt(a, b) ==
    IF a = <<0, 0>> \/ b = <<0, 0>> THEN FALSE
    ELSE IF a[2] = 0 /\ b[2] = 0 THEN a[1] < b[1]
    ELSE IF a[2] = 0 THEN a[1] < 0
    ELSE IF b[2] = 0 THEN b[1] > 0
    ELSE LET s == Scaled(a, b) IN s[1] < s[2]

RLe(a, b) == RLt(a, b) \/ (a = b /\ a # <<0, 0>>)

RECURSIVE RSum(_)
RSum(s) == IF s = <<>> THEN R(0) ELSE RAdd(s[1], RSum(Tail(s)))

-----------------------------------------------------------------------------
(* Constants of run_backtest                                                *)

max_positions == 5

hold_days == 20

min_span_days == 30

max_intraday_span_days == 60

min_preload_bars == 50

position_cap == <<1, 5>>

IntradayTimeframes == {"1m", "5m", "15m", "30m", "1h"}

EmptyDict == <<>>

-----------------------------------------------------------------------------
(* Dicts                                                                    *)

DictSet(d, k, v) == [x \in DOMAIN d \cup {k} |-> IF x = k THEN v ELSE d[x]]

DictDel(d, k) == [x \in DOMAIN d \ {k} |-> d[x]]

Range(s) == {s[i] : i \in DOMAIN s}

RECURSIVE Select(_, _)
\* the list comprehension [t for t in s if t in keep]
Select(s, keep) ==
    IF s = <<>> THEN <<>>
    ELSE IF s[1] \in keep THEN <<s[1]>> \o Select(Tail(s), keep)
    ELSE Select(Tail(s), keep)

Pnls(s) == [i \in DOMAIN s |-> s[i].trade_pnl]

\* np.mean: NaN on the empty list
RMean(s) == RDiv(RSum(s), R(Len(s)))

-----------------------------------------------------------------------------
(* Date range validation                                                    *)

\* the first test strict, the minimum span forgotten
RangeErrorLoose(days_diff, timeframe) ==
    IF days_diff < 0 THEN "Invalid date range"
    ELSE IF timeframe \in IntradayTimeframes /\ days_diff > max_intraday_span_days
    THEN "Intraday backtests limited to 60 days max"
    ELSE ""

RangeError(days_diff, timeframe) ==
    IF days_diff <= 0 THEN "Invalid date range"
    ELSE IF days_diff < min_span_days
    THEN "Backtest period must be at least 30 days"
    ELSE IF timeframe \in IntradayTimeframes /\ days_diff > max_intraday_span_days
    THEN "Intraday backtests limited to 60 days max"
    ELSE ""

ErrorResult(msg) ==
    [error |-> msg, trades |-> <<>>, metrics |-> EmptyDict,
     symbol_performance |-> EmptyDict]

-----------------------------------------------------------------------------
(* Exit rule                                                                *)

StopHit(position, row) ==
    IF position.direction = "long"
    THEN RLe(R(row.low), position.stop_price)
    ELSE RLe(position.stop_price, R(row.high))

ScoreDecayed(row, min_score) == 2 * row.score < min_score

HeldDays(position, current_date) == current_date - position.entry_date

NoExit(row) == [triggered |-> FALSE, reason |-> "", price |-> R(row.close)]

\* a stop filled at the bar's worst price, not at the stop price
StopOrScoreExitAtExtreme(position, row, min_score) ==
    IF StopHit(position, row)
    THEN [triggered |-> TRUE, reason |-> "stop_loss",
          price |-> IF position.direction = "long" THEN R(row.low) ELSE R(row.high)]
    ELSE IF ScoreDecayed(row, min_score)
    THEN [triggered |-> TRUE, reason |-> "score_exit", price |-> R(row.close)]
    ELSE NoExit(row)

\* the intrabar stop check and its elif, the same in both directions
StopOrScoreExit(position, row, min_score) ==
    IF StopHit(position, row)
    THEN [triggered |-> TRUE, reason |-> "stop_loss", price |-> position.stop_price]
    ELSE IF ScoreDecayed(row, min_score)
    THEN [triggered |-> TRUE, reason |-> "score_exit", price |-> R(row.close)]
    ELSE NoExit(row)

\* no holding limit: the stop and the score are the only exits
ExitDecisionUntimed(position, row, current_date, min_score) ==
    StopOrScoreExit(position, row, min_score)

\* the time-based check follows unconditionally and overwrites the decision
ExitDecision(position, row, current_date, min_score) ==
    IF HeldDays(position, current_date) >= hold_days
    THEN [triggered |-> TRUE, reason |-> "time_exit", price |-> R(row.close)]
    ELSE StopOrScoreExit(position, row, min_score)

\* the long formula applied to both directions
TradeReturnLongOnly(position, exit_price) ==
    RDiv(RSub(exit_price, position.entry_price), position.entry_price)

TradeReturn(position, exit_price) ==
    IF position.direction = "long"
    THEN RDiv(RSub(exit_price, position.entry_price), position.entry_price)
    ELSE RDiv(RSub(position.entry_price, exit_price), position.entry_price)

TradePnl(position, exit_price) ==
    RMul(TradeReturn(position, exit_price), position.position_value)

TradeRecord(position, exit, current_date) ==
    [symbol        |-> position.symbol,
     direction     |-> position.direction,
     entry_date    |-> position.entry_date,
     exit_date     |-> current_date,
     entry_price   |-> position.entry_price,
     exit_price    |-> exit.price,
     position_size |-> position.position_size,
     trade_return  |-> TradeReturn(position, exit.price),
     trade_pnl     |-> TradePnl(position, exit.price),
     exit_reason   |-> exit.reason,
     holding_days  |-> HeldDays(position, current_date)]

-----------------------------------------------------------------------------
(* Entry rule and sizing                                                    *)

\* the capacity test off by one
EntryAllowedOverCap(symbol, positions, row, equity, min_score) ==
    /\ symbol \notin DOMAIN positions
    /\ Cardinality(DOMAIN positions) <= max_positions
    /\ row.score >= min_score
    /\ RLt(R(0), equity)

\* without the test that the symbol is flat
EntryAllowedWhileHeld(symbol, positions, row, equity, min_score) ==
    /\ Cardinality(DOMAIN positions) < max_positions
    /\ row.score >= min_score
    /\ RLt(R(0), equity)

\* the threshold itself does not qualify
EntryAllowedAboveScore(symbol, positions, row, equity, min_score) ==
    /\ symbol \notin DOMAIN positions
    /\ Cardinality(DOMAIN positions) < max_positions
    /\ row.score > min_score
    /\ RLt(R(0), equity)

\* the entry check looks at the positions held before the bar's exit check
EntryAllowedBeforeExit(symbol, positions, row, equity, min_score) ==
    /\ symbol \notin DOMAIN active_positions
    /\ Cardinality(DOMAIN positions) < max_positions
    /\ row.score >= min_score
    /\ RLt(R(0), equity)

EntryAllowed(symbol, positions, row, equity, min_score) ==
    /\ symbol \notin DOMAIN positions
    /\ Cardinality(DOMAIN positions) < max_positions
    /\ row.score >= min_score
    /\ RLt(R(0), equity)

Direction(row) == IF row.score > 0 THEN "long" ELSE "short"

StopPrice(row, stop_atr_mult) ==
    LET stop_distance == RMul(stop_atr_mult, R(row.atr))
    IN  IF Direction(row) = "long"
        THEN RSub(R(row.close), stop_distance)
        ELSE RAdd(R(row.close), stop_distance)

\* without the 20% cap
SizingUncapped(equity, entry_price, stop_price, risk_per_trade) ==
    LET risk_amount == RMul(equity, risk_per_trade)
        size        == RDiv(risk_amount, RAbs(RSub(entry_price, stop_price)))
    IN  [position_size |-> size, position_value |-> RMul(size, entry_price)]

\* risk-based size, then the 20% cap; a zero stop distance gives inf
Sizing(equity, entry_price, stop_price, risk_per_trade) ==
    LET risk_amount == RMul(equity, risk_per_trade)
        size        == RDiv(risk_amount, RAbs(RSub(entry_price, stop_price)))
        value       == RMul(size, entry_price)
        cap         == RMul(equity, position_cap)
    IN  IF RLt(cap, value)
        THEN [position_size |-> RDiv(cap, entry_price), position_value |-> cap]
        ELSE [position_size |-> size, position_value |-> value]

NewPosition(symbol, row, current_date, equity, a) ==
    LET stop  == StopPrice(row, a.stop_atr_mult)
        sized == Sizing(equity, R(row.close), stop, a.risk_per_trade)
    IN  [symbol         |-> symbol,
         direction      |-> Direction(row),
         entry_price    |-> R(row.close),
         entry_date     |-> current_date,
         stop_price     |-> stop,
         position_size  |-> sized.position_size,
         position_value |-> sized.position_value]

-----------------------------------------------------------------------------
(* Aggregate metrics                                                        *)

Wins(s) == Select(s, {t \in Range(s) : RLt(R(0), t.trade_pnl)})

Losses(s) == Select(s, {t \in Range(s) : RLt(t.trade_pnl, R(0))})

ProfitFactor(avg_win, avg_loss, wins, losing) ==
    IF avg_loss # R(0) /\ losing > 0
    THEN RAbs(RDiv(RMul(avg_win, R(wins)), RMul(RAbs(avg_loss), R(losing))))
    ELSE Inf

\* sharpe_ratio (a square root) is left out of the bundle
Metrics(a, equity, log, n_trades, n_wins, drawdown, n_symbols) ==
    IF log # <<>>
    THEN LET avg_win  == IF n_wins > 0 THEN RMean(Pnls(Wins(log))) ELSE R(0)
             avg_loss == IF n_trades - n_wins > 0 THEN RMean(Pnls(Losses(log)))
                         ELSE R(0)
         IN  [initial_equity   |-> a.initial_equity,
              final_equity     |-> equity,
              total_return     |-> RDiv(RSub(equity, a.initial_equity), a.initial_equity),
              total_trades     |-> n_trades,
              winning_trades   |-> n_wins,
              losing_trades    |-> n_trades - n_wins,
              win_rate         |-> RDiv(R(n_wins), R(n_trades)),
              avg_win          |-> avg_win,
              avg_loss         |-> avg_loss,
              profit_factor    |-> ProfitFactor(avg_win, avg_loss, n_wins, n_trades - n_wins),
              max_drawdown     |-> drawdown,
              avg_holding_days |-> RMean([i \in DOMAIN log |-> R(log[i].holding_days)]),
              max_concurrent_positions |-> max_positions,
              symbols_tested   |-> n_symbols]
    ELSE [initial_equity   |-> a.initial_equity,
          final_equity     |-> equity,
          total_return     |-> R(0),
          total_trades     |-> 0,
          winning_trades   |-> 0,
          losing_trades    |-> 0,
          win_rate         |-> R(0),
          avg_win          |-> R(0),
          avg_loss         |-> R(0),
          profit_factor    |-> R(0),
          max_drawdown     |-> R(0),
          avg_holding_days |-> R(0),
          max_concurrent_positions |-> max_positions,
          symbols_tested   |-> n_symbols]

SymbolPerformance(symbols, log) ==
    LET of(s)   == Select(log, {t \in Range(log) : t.symbol = s})
        traded  == {s \in Range(symbols) : of(s) # <<>>}
    IN  [s \in traded |->
            [total_trades   |-> Len(of(s)),
             winning_trades |-> Len(Wins(of(s))),
             total_pnl      |-> RSum(Pnls(of(s))),
             avg_return     |-> RMean([i \in DOMAIN of(s) |-> of(s)[i].trade_return]),
             win_rate       |-> RDiv(R(Len(Wins(of(s)))), R(Len(of(s))))]]

-----------------------------------------------------------------------------
(* Feature frames, score_row and position_sizing                            *)
(*                                                                          *)
(* A frame is the DataFrame compute_features returns, run-length encoded:   *)
(* a sequence of runs [n, row], each standing for n consecutive rows equal  *)
(* to row.  A row holds the columns score_row and position_sizing read, as  *)
(* fractions; an undefined feature is NaN.                                  *)

NaN == <<0, 0>>

\* pd.notna
notna(x) == x # NaN

FeatureRow(close, ema200, close_20_max, close_20_min, rsi, macd_hist, vol_z, bb_width, bb_width_ma, atr) ==
    [close |-> close, ema200 |-> ema200, close_20_max |-> close_20_max,
     close_20_min |-> close_20_min, rsi |-> rsi, macd_hist |-> macd_hist,
     vol_z |-> vol_z, bb_width |-> bb_width, bb_width_ma |-> bb_width_ma,
     atr |-> atr]

\* a row with every column but the volume z-score defined
DefinedApartFromVolume(row) ==
    \A column \in DOMAIN row \ {"vol_z"} : notna(row[column])

\* a row dropna keeps: no column is NaN
Defined(row) == \A column \in DOMAIN row : notna(row[column])

RECURSIVE FrameLen(_)
\* len(df)
FrameLen(frame) ==
    IF frame = <<>> THEN 0
    ELSE IF Len(frame) = 1 THEN frame[1].n
    ELSE LET half == Len(frame) \div 2
         IN  FrameLen(SubSeq(frame, 1, half))
               + FrameLen(SubSeq(frame, half + 1, Len(frame)))

\* the frame as it is, undefined rows kept
keepna(frame) == frame

\* DataFrame.dropna(): the rows with no NaN, in order
dropna(frame) == SelectSeq(frame, LAMBDA entry : Defined(entry.row))

\* f.iloc[-1]
iloc_last(frame) == frame[Len(frame)].row

\* the rows of a frame, as a set
FrameRows(frame) == {frame[i].row : i \in DOMAIN frame}

RECURSIVE Pow10(_)
Pow10(k) == IF k = 0 THEN 1 ELSE 10 * Pow10(k - 1)

\* round(x, ndigits) on a float: to the nearest multiple of 10^-ndigits, a
\* tie to the even one; NaN and the infinities are returned as they are
round(x, ndigits) ==
    IF x[2] = 0 THEN x
    ELSE LET p     == Pow10(ndigits)
             g     == GCD(p, x[2])
             num   == x[1] * (p \div g)
             den   == x[2] \div g
             q     == num \div den
             twice == 2 * (num % den)
             up    == twice > den \/ (twice = den /\ q % 2 = 1)
         IN  Norm(IF up THEN q + 1 ELSE q, p)

\* score_row without the two RSI extreme terms
score_row_no_extremes(r) ==
    LET atr_pct == IF notna(r.atr) /\ r.close # R(0)
                   THEN RDiv(r.atr, r.close) ELSE NaN
    IN  (IF RLt(r.ema200, r.close) THEN 25 ELSE -25)
      + (IF RLt(r.close_20_max, r.close) THEN 25 ELSE 0)
      - (IF RLt(r.close, r.close_20_min) THEN 25 ELSE 0)
      + (IF notna(r.rsi) /\ RLt(R(50), r.rsi) THEN 10 ELSE -10)
      + (IF notna(r.macd_hist) /\ RLt(R(0), r.macd_hist) THEN 10 ELSE -10)
      + (IF notna(r.vol_z) /\ RLt(<<1, 2>>, r.vol_z) THEN 8 ELSE 0)
      + (IF notna(r.bb_width) /\ notna(r.bb_width_ma)
            /\ RLt(r.bb_width_ma, r.bb_width) THEN 7 ELSE 0)
      + (IF notna(atr_pct) /\ RLt(atr_pct, <<1, 25>>) THEN 5 ELSE 0)

\* score_row without its breakout and breakdown terms
score_row_no_breakout(r) ==
    LET atr_pct == IF notna(r.atr) /\ r.close # R(0)
                   THEN RDiv(r.atr, r.close) ELSE NaN
    IN  (IF RLt(r.ema200, r.close) THEN 25 ELSE -25)
      + (IF notna(r.rsi) /\ RLt(R(50), r.rsi) THEN 10 ELSE -10)
      + (IF notna(r.macd_hist) /\ RLt(R(0), r.macd_hist) THEN 10 ELSE -10)
      + (IF notna(r.vol_z) /\ RLt(<<1, 2>>, r.vol_z) THEN 8 ELSE 0)
      + (IF notna(r.bb_width) /\ notna(r.bb_width_ma)
            /\ RLt(r.bb_width_ma, r.bb_width) THEN 7 ELSE 0)
      + (IF notna(atr_pct) /\ RLt(atr_pct, <<1, 25>>) THEN 5 ELSE 0)
      - (IF notna(r.rsi) /\ RLt(R(80), r.rsi) THEN 10 ELSE 0)
      + (IF notna(r.rsi) /\ RLt(r.rsi, R(20)) THEN 10 ELSE 0)

\* score_row: s starts at 0.0 and each line adds its points; the sum of
\* whole numbers is exact in a float, so the score is kept as an integer
score_row(r) ==
    LET atr_pct == IF notna(r.atr) /\ r.close # R(0)
                   THEN RDiv(r.atr, r.close) ELSE NaN
    IN  (IF RLt(r.ema200, r.close) THEN 25 ELSE -25)
      + (IF RLt(r.close_20_max, r.close) THEN 25 ELSE 0)
      - (IF RLt(r.close, r.close_20_min) THEN 25 ELSE 0)
      + (IF notna(r.rsi) /\ RLt(R(50), r.rsi) THEN 10 ELSE -10)
      + (IF notna(r.macd_hist) /\ RLt(R(0), r.macd_hist) THEN 10 ELSE -10)
      + (IF notna(r.vol_z) /\ RLt(<<1, 2>>, r.vol_z) THEN 8 ELSE 0)
      + (IF notna(r.bb_width) /\ notna(r.bb_width_ma)
            /\ RLt(r.bb_width_ma, r.bb_width) THEN 7 ELSE 0)
      + (IF notna(atr_pct) /\ RLt(atr_pct, <<1, 25>>) THEN 5 ELSE 0)
      - (IF notna(r.rsi) /\ RLt(R(80), r.rsi) THEN 10 ELSE 0)
      + (IF notna(r.rsi) /\ RLt(r.rsi, R(20)) THEN 10 ELSE 0)

\* what position_sizing returns when math.floor raises (NaN or inf quotient)
SizingRaised ==
    [raises |-> TRUE, size_units |-> 0, risk_dollars |-> NaN,
     notional |-> NaN, stop_price |-> NaN]

\* position_sizing with the quotient rounded up
position_sizing_ceil(row, direction, account_equity, risk_pct, stop_mult) ==
    LET stop_price    == IF direction = "Bullish"
                         THEN RSub(row.close, RMul(stop_mult, row.atr))
                         ELSE RAdd(row.close, RMul(stop_mult, row.atr))
        per_unit_risk == RAbs(RSub(row.close, stop_price))
        risk_dollars  == RMul(account_equity, risk_pct)
        quotient      == RDiv(risk_dollars, per_unit_risk)
        size_units    == IF RLe(per_unit_risk, R(0)) THEN 0
                         ELSE -((-quotient[1]) \div quotient[2])
    IN  IF ~RLe(per_unit_risk, R(0)) /\ quotient[2] = 0 THEN SizingRaised
        ELSE [raises |-> FALSE, size_units |-> size_units,
              risk_dollars |-> risk_dollars,
              notional |-> RMul(R(size_units), row.close),
              stop_price |-> stop_price]

\* position_sizing(last, direction, account_equity, risk_pct, stop_mult)
position_sizing(row, direction, account_equity, risk_pct, stop_mult) ==
    LET stop_price    == IF direction = "Bullish"
                         THEN RSub(row.close, RMul(stop_mult, row.atr))
                         ELSE RAdd(row.close, RMul(stop_mult, row.atr))
        per_unit_risk == RAbs(RSub(row.close, stop_price))
        risk_dollars  == RMul(account_equity, risk_pct)
        quotient      == RDiv(risk_dollars, per_unit_risk)
        size_units    == IF RLe(per_unit_risk, R(0)) THEN 0
                         ELSE quotient[1] \div quotient[2]
    IN  IF ~RLe(per_unit_risk, R(0)) /\ quotient[2] = 0 THEN SizingRaised
        ELSE [raises |-> FALSE, size_units |-> size_units,
              risk_dollars |-> risk_dollars,
              notional |-> RMul(R(size_units), row.close),
              stop_price |-> stop_price]

\* str.lower on the timeframe spellings in use
lower(tf) ==
    CASE tf = "1D" -> "1d"
      [] tf = "D"  -> "d"
      [] tf = "1H" -> "1h"
      [] OTHER     -> tf

\* min_bars_required(tf) of src/app.py
min_bars_required(tf) ==
    LET t == lower(tf)
    IN  IF t \in {"1d", "d"} THEN 210
        ELSE IF t \in {"1h", "60m"} THEN 350
        ELSE IF t \in {"30m", "15m"} THEN 500
        ELSE IF t \in {"5m", "1m"} THEN 700
        ELSE 210

-----------------------------------------------------------------------------
(* The indicators of compute_features                                       *)
(*                                                                          *)
(* df is the OHLCV series, one record [close, high, low, volume] of         *)
(* integers per bar.  The columns are computed bar by bar.  A recursive     *)
(* average (ewm with adjust=False) carries its last value; the step added   *)
(* to it, like the quotient of the band width, is kept to `decimals`        *)
(* decimal places, which is as close as this model comes to the rounding    *)
(* of a float.  A standard deviation is the root of an exact variance,      *)
(* taken by an integer square root.                                         *)

decimals == 6

RECURSIVE long_division(_, _, _, _)
\* k more decimal digits of (q + r / d): <<the digits as an integer, the rest>>
long_division(q, r, d, k) ==
    IF k = 0 THEN <<q, r>>
    ELSE long_division(10 * q + ((10 * r) \div d), (10 * r) % d, d, k - 1)

\* x as the float the source would hold: to the nearest multiple of
\* 10^-decimals; NaN and the infinities as they are
float(x) ==
    IF x[2] = 0 THEN x
    ELSE LET n  == Abs(x[1])
             ld == long_division(n \div x[2], n % x[2], x[2], decimals)
             m  == IF 2 * ld[2] >= x[2] THEN ld[1] + 1 ELSE ld[1]
         IN  Norm(Sign(x[1]) * m, Pow10(decimals))

RECURSIVE bisect_sqrt(_, _, _)
\* the largest r in lo..hi with r * r <= n
bisect_sqrt(n, lo, hi) ==
    IF lo = hi THEN lo
    ELSE LET mid == (lo + hi + 1) \div 2
         IN  IF mid * mid <= n THEN bisect_sqrt(n, mid, hi)
             ELSE bisect_sqrt(n, lo, mid - 1)

isqrt(n) == bisect_sqrt(n, 0, 46340)

\* the last n elements of a series
tail(s, n) == SubSeq(s, Len(s) - n + 1, Len(s))

\* one step of Series.ewm(alpha=alpha, adjust=False).mean(): undefined until
\* the first defined input, which seeds it, then y + alpha * (x - y)
ewm(y, x, alpha) ==
    IF ~notna(x) THEN y
    ELSE IF ~notna(y) THEN x
    ELSE RAdd(y, float(RMul(alpha, RSub(x, y))))

\* s.rolling(n).mean(): undefined until n values are there
rolling_mean(s, n) ==
    IF Len(s) < n THEN NaN ELSE RMean(tail(s, n))

RECURSIVE greatest(_)
greatest(s) ==
    IF Len(s) = 1 THEN s[1]
    ELSE LET m == greatest(Tail(s)) IN IF s[1] > m THEN s[1] ELSE m

RECURSIVE least(_)
least(s) ==
    IF Len(s) = 1 THEN s[1]
    ELSE LET m == least(Tail(s)) IN IF s[1] < m THEN s[1] ELSE m

\* the highest of the n bars before the current one: s.shift(1).rolling(n).max()
rolling_max_before(s, n) ==
    IF Len(s) < n + 1 THEN NaN
    ELSE R(greatest(SubSeq(s, Len(s) - n, Len(s) - 1)))

\* s.rolling(n).max() and .min() of an integer column: the window ends at,
\* and includes, the current bar
rolling_max(s, n) == IF Len(s) < n THEN NaN ELSE R(greatest(tail(s, n)))

rolling_min(s, n) == IF Len(s) < n THEN NaN ELSE R(least(tail(s, n)))

RECURSIVE Sum(_)
Sum(s) == IF s = <<>> THEN 0 ELSE s[1] + Sum(Tail(s))

\* s.rolling(n).std() of an integer column: the sample deviation (ddof = 1),
\* sqrt((n * sum(x^2) - sum(x)^2) / (n * (n - 1)))
rolling_std(s, n) ==
    IF Len(s) < n THEN NaN
    ELSE LET w     == tail(s, n)
             s1    == Sum(w)
             s2    == Sum([i \in DOMAIN w |-> w[i] * w[i]])
             scatter == (n * s2 - s1 * s1) * n * (n - 1)
             k     == IF scatter <= 21474836 THEN 10 ELSE 1
         IN  Norm(isqrt(scatter * k * k), n * (n - 1) * k)

\* a column of df
series(df, name) == [i \in DOMAIN df |-> df[i][name]]

as_float(s) == [i \in DOMAIN s |-> R(s[i])]

\* the larger of two values, an undefined one skipped
RMax(a, b) ==
    IF ~notna(a) THEN b ELSE IF ~notna(b) THEN a
    ELSE IF RLt(a, b) THEN b ELSE a

\* the running averages before the first bar; close is the previous close
no_averages ==
    [close |-> NaN, ema200 |-> NaN, macd_fast |-> NaN, macd_slow |-> NaN,
     signal |-> NaN, up |-> NaN, dn |-> NaN, atr |-> NaN]

\* an average that follows its input at once: no smoothing
_ema_unsmoothed(y, x, n) == x

\* s.ewm(span=n, adjust=False).mean(), one step: alpha = 2 / (n + 1)
_ema(y, x, n) == ewm(y, x, Norm(2, n + 1))

\* _rsi, one step.  The change of the first bar is undefined.  (The source
\* negates the clipped change, so its dn is -0.0 where this one is 0; up/dn
\* is then -inf and not inf, NaN all the same for up = 0, and the RSI the
\* same 100.)
_rsi(avg, close, n) ==
    LET d    == IF notna(avg.close) THEN RSub(close, avg.close) ELSE NaN
        gain == IF ~notna(d) THEN NaN ELSE IF RLt(d, R(0)) THEN R(0) ELSE d
        loss == IF ~notna(d) THEN NaN ELSE IF RLt(R(0), d) THEN R(0) ELSE RNeg(d)
        up   == ewm(avg.up, gain, Norm(1, n))
        dn   == ewm(avg.dn, loss, Norm(1, n))
        rs   == float(RDiv(up, dn))
    IN  [up |-> up, dn |-> dn,
         rsi |-> RSub(R(100), float(RDiv(R(100), RAdd(R(1), rs))))]

\* _atr, one step: the true range is the largest of the three distances
\* that are defined (max(axis=1) skips NaN)
_atr(avg, bar, n) ==
    LET hl == R(bar.high - bar.low)
        hc == IF notna(avg.close) THEN RAbs(RSub(R(bar.high), avg.close)) ELSE NaN
        lc == IF notna(avg.close) THEN RAbs(RSub(R(bar.low), avg.close)) ELSE NaN
        tr == RMax(RMax(hl, hc), lc)
    IN  ewm(avg.atr, tr, Norm(1, n))

\* _bb_width at the last bar of the close column c
_bb_width(c, n, k) ==
    LET ma    == rolling_mean(as_float(c), n)
        sd    == rolling_std(c, n)
        upper_band == RAdd(ma, RMul(k, sd))
        lower_band == RSub(ma, RMul(k, sd))
    IN  float(RDiv(RSub(upper_band, lower_band), R(c[Len(c)])))

\* compute_features at the last bar of df: the running averages after it
\* and its row, from the averages before it and the rows before it (out).
\* Columns ema8, ema21 and ema50 are never undefined and never read; they
\* are left out.
compute_features(df, avg, out) ==
    LET bar       == df[Len(df)]
        close     == series(df, "close")
        ema200    == _ema(avg.ema200, R(bar.close), 200)
        rsi       == _rsi(avg, R(bar.close), 14)
        macd_fast == _ema(avg.macd_fast, R(bar.close), 12)
        macd_slow == _ema(avg.macd_slow, R(bar.close), 26)
        macd_line == RSub(macd_fast, macd_slow)
        signal    == ewm(avg.signal, macd_line, Norm(2, 9 + 1))
        atr       == _atr(avg, bar, 14)
        bb_width  == _bb_width(close, 20, R(2))
        vol_ma20  == rolling_mean(as_float(series(df, "volume")), 20)
        vol_z     == RDiv(RSub(R(bar.volume), vol_ma20),
                          IF vol_ma20 = R(0) THEN NaN ELSE vol_ma20)
        widths    == [i \in DOMAIN out |-> out[i].row.bb_width] \o <<bb_width>>
    IN  [avg |-> [close |-> R(bar.close), ema200 |-> ema200,
                  macd_fast |-> macd_fast, macd_slow |-> macd_slow,
                  signal |-> signal, up |-> rsi.up, dn |-> rsi.dn, atr |-> atr],
         row |-> FeatureRow(R(bar.close), ema200, rolling_max(close, 20),
                            rolling_min(close, 20), rsi.rsi,
                            RSub(macd_line, signal), vol_z, bb_width,
                            rolling_mean(widths, 20), atr)]

\* dollar_volume(df): the mean of close * volume over the last 20 bars
dollar_volume(df) ==
    LET w == IF Len(df) < 20 THEN df ELSE tail(df, 20)
    IN  RMean([i \in DOMAIN w |-> R(w[i].close * w[i].volume)])

-----------------------------------------------------------------------------
(* The data router and the per-symbol scan of src/api/scanner_core.py       *)
(*                                                                          *)
(* market[symbol][provider] is what the provider does when asked for the    *)
(* symbol: [raises, reason, df, dollar_volume].  df is the series it        *)
(* returns, held as the frame compute_features makes of it (one row per     *)
(* bar, so len(df) is the frame's length); dollar_volume is what            *)
(* dollar_volume(df) evaluates to.                                          *)

min_router_bars == 10

\* an optional value: None is the empty sequence, a value a sequence of one
None == <<>>

Some(x) == <<x>>

\* get_ohlcv(symbol, timeframe, is_crypto): the second provider is called in
\* the except clause of the first, so only when the first one raised; a
\* first provider that returns fewer than 10 bars falls through to the final
\* raise.  The ValueError's text names the symbol and nothing else.
get_ohlcv(feed, symbol, is_crypto) ==
    LET first  == IF is_crypto THEN "alpha_vantage" ELSE "yfinance"
        second == IF is_crypto THEN "yfinance" ELSE "alpha_vantage"
        good(p) == ~feed[p].raises /\ FrameLen(feed[p].df) >= min_router_bars
        failed(called) ==
            [raises |-> TRUE, df |-> <<>>, called |-> called,
             error |-> <<"All data sources failed for ", symbol>>]
    IN  IF ~feed[first].raises
        THEN IF good(first)
             THEN [raises |-> FALSE, df |-> feed[first].df,
                   called |-> <<first>>, error |-> <<>>]
             ELSE failed(<<first>>)
        ELSE IF good(second)
        THEN [raises |-> FALSE, df |-> feed[second].df,
              called |-> <<first, second>>, error |-> <<>>]
        ELSE failed(<<first, second>>)

\* a return that never carries an error entry
NoResultSilent(symbol, message, called, seen) ==
    [result |-> None, called |-> called, scored |-> seen, error |-> None]

\* what _scan_single_symbol returns for a symbol that did not score
NoResult(symbol, message, called, seen) ==
    [result |-> None, called |-> called, scored |-> seen,
     error  |-> IF message = <<>> THEN None
                ELSE Some([symbol |-> symbol, error |-> message])]

\* _scan_single_symbol that gives (None, None) when the router raises
scan_single_symbol_swallowing(feed, symbol, timeframe, min_score, is_crypto, min_bars) ==
    LET got      == get_ohlcv(feed, symbol, is_crypto)
        features == dropna(got.df)
        last_row == iloc_last(features)
        score    == score_row(last_row)
    IN  IF got.raises THEN NoResult(symbol, <<>>, got.called, {})
        ELSE IF FrameLen(got.df) < min_bars
        THEN NoResult(symbol, <<"Insufficient data">>, got.called, {})
        ELSE IF features = <<>>
        THEN NoResult(symbol, <<"No valid data after feature computation">>,
                      got.called, {})
        ELSE IF score < min_score
        THEN NoResult(symbol, <<>>, got.called, {last_row})
        ELSE [result |-> Some([symbol    |-> symbol,
                               price     |-> round(last_row.close, 2),
                               score     |-> round(R(score), 0),
                               direction |-> IF score >= 0 THEN "LONG"
                                             ELSE "SHORT",
                               rsi       |-> round(last_row.rsi, 1),
                               macd_histogram |-> round(last_row.macd_hist, 3)]),
              error  |-> None,
              called |-> got.called,
              scored |-> {last_row}]

\* _scan_single_symbol; the texts are kept without their numbers
scan_single_symbol(feed, symbol, timeframe, min_score, is_crypto, min_bars) ==
    LET got      == get_ohlcv(feed, symbol, is_crypto)
        features == dropna(got.df)
        last_row == iloc_last(features)
        score    == score_row(last_row)
    IN  IF got.raises THEN NoResult(symbol, got.error, got.called, {})
        ELSE IF FrameLen(got.df) < min_bars
        THEN NoResult(symbol, <<"Insufficient data">>, got.called, {})
        ELSE IF features = <<>>
        THEN NoResult(symbol, <<"No valid data after feature computation">>,
                      got.called, {})
        ELSE IF score < min_score
        THEN NoResult(symbol, <<>>, got.called, {last_row})
        ELSE [result |-> Some([symbol    |-> symbol,
                               price     |-> round(last_row.close, 2),
                               score     |-> round(R(score), 0),
                               direction |-> IF score >= 0 THEN "LONG"
                                             ELSE "SHORT",
                               rsi       |-> round(last_row.rsi, 1),
                               macd_histogram |-> round(last_row.macd_hist, 3)]),
              error  |-> None,
              called |-> got.called,
              scored |-> {last_row}]

\* the list as it is
unsorted(s) == s

RECURSIVE insert_desc(_, _)
\* x put behind every entry whose score is not below its own
insert_desc(sorted, x) ==
    IF sorted = <<>> THEN <<x>>
    ELSE IF RLt(sorted[1].score, x.score) THEN <<x>> \o sorted
    ELSE <<sorted[1]>> \o insert_desc(Tail(sorted), x)

RECURSIVE sort_desc(_)
\* results.sort(key=lambda x: x["score"], reverse=True): by score, highest
\* first; the sort is stable, equal scores keep the order they came in
sort_desc(s) ==
    IF s = <<>> THEN <<>>
    ELSE insert_desc(sort_desc(SubSeq(s, 1, Len(s) - 1)), s[Len(s)])

\* one pass of scan_universe's loop body (src/app.py) for a symbol
scan_universe_symbol(feed, symbol, a) ==
    LET got      == feed["yfinance"]
        features == dropna(got.df)
        last_row == iloc_last(features)
        sc       == score_row(last_row)
        direction == IF sc >= 0 THEN "Bullish" ELSE "Bearish"
        sized    == position_sizing(last_row, direction, a.account_equity,
                                    a.risk_pct, a.stop_mult)
        failure(message, seen) ==
            [row |-> None, scored |-> seen,
             error |-> Some([symbol |-> symbol, timeframe |-> a.timeframe,
                             error |-> message])]
    IN  IF got.raises THEN failure(<<got.reason>>, {})
        ELSE IF FrameLen(got.df) < min_bars_required(a.timeframe)
        THEN failure(<<"Not enough history">>, {})
        ELSE IF ~a.is_crypto /\ RLt(got.dollar_volume, a.min_vol)
        THEN failure(<<"Below min dollar vol">>, {})
        ELSE IF features = <<>>
        THEN failure(<<"Features empty after dropna()">>, {})
        ELSE IF sized.raises
        THEN failure(<<"cannot convert float to integer">>, {last_row})
        ELSE [row |-> Some([symbol     |-> symbol,
                            timeframe  |-> a.timeframe,
                            close      |-> round(last_row.close, 6),
                            score      |-> round(R(sc), 2),
                            direction  |-> direction,
                            rsi        |-> round(last_row.rsi, 2),
                            atr        |-> round(last_row.atr, 6),
                            stop       |-> round(sized.stop_price, 6),
                            size       |-> sized.size_units,
                            risk_usd   |-> round(sized.risk_dollars, 2),
                            notional_usd |-> round(sized.notional, 2)]),
              error  |-> None,
              scored |-> {last_row}]

-----------------------------------------------------------------------------
(* The state machine                                                        *)

NoStep == <<>>

InitBacktest(a, e) ==
    /\ args = a
    /\ env = e
    /\ li = 1
    /\ fetches = 0
    /\ symbol_data = <<>>
    /\ errors = <<>>
    /\ date_index = <<>>
    /\ si = 1
    /\ any_row = FALSE
    /\ rows_seen = {}
    /\ current_equity = a.initial_equity
    /\ day_start_equity = a.initial_equity
    /\ max_equity = a.initial_equity
    /\ max_drawdown = R(0)
    /\ active_positions = EmptyDict
    /\ trades = <<>>
    /\ equity_curve = <<>>
    /\ daily_returns = <<>>
    /\ total_trades = 0
    /\ winning_trades = 0
    /\ entries = 0
    /\ entry_equity = EmptyDict
    /\ last = NoStep
    /\ result = EmptyDict

\* no scan_symbols call under way
feature_vars == <<shape, ohlcv, averages, computed>>

\* no series is being delivered
FeaturesIdle ==
    /\ shape = EmptyDict
    /\ ohlcv = <<>>
    /\ averages = no_averages
    /\ computed = <<>>

ScanIdle ==
    /\ scan_pc = "idle"
    /\ scan_args = EmptyDict
    /\ pending = {}
    /\ scan_results = <<>>
    /\ scan_errors = <<>>
    /\ attempts = EmptyDict

\* no scan_universe call under way
UniverseIdle ==
    /\ univ_pc = "idle"
    /\ univ_args = EmptyDict
    /\ ui = 1
    /\ rows = <<>>
    /\ errs = <<>>

\* a run_backtest call alone
InitWith(a, e) ==
    /\ pc = "validate"
    /\ InitBacktest(a, e)
    /\ market = EmptyDict
    /\ ScanIdle
    /\ UniverseIdle
    /\ scored = {}
    /\ call = EmptyDict
    /\ FeaturesIdle

scan_vars == <<market, scan_pc, scan_args, pending, scan_results, scan_errors,
               attempts>>

univ_vars == <<univ_pc, univ_args, ui, rows, errs>>

replay_vars == <<date_index, si, any_row, rows_seen, current_equity,
                 day_start_equity, max_equity, max_drawdown, active_positions,
                 trades, equity_curve, daily_returns, total_trades,
                 winning_trades, entries, entry_equity, last>>

load_vars == <<li, fetches, symbol_data, errors>>

\* lines 1917-1936: the range checks, before anything else
Validate ==
    /\ pc = "validate"
    /\ LET msg == RangeError(args.days_diff, args.timeframe)
       IN  IF msg # ""
           THEN pc' = "done" /\ result' = ErrorResult(msg)
           ELSE pc' = "preload" /\ result' = result
    /\ UNCHANGED <<args, env, load_vars, replay_vars>>
    /\ UNCHANGED <<feature_vars, scan_vars, univ_vars, scored, call>>

\* lines 1960-1981: one iteration of the pre-load loop
Preload ==
    /\ pc = "preload"
    /\ li <= Len(args.symbols)
    /\ \E fetch \in env.fetch :
         LET symbol == args.symbols[li]
             df_features == dropna(fetch.df)
             msg == IF fetch.raises THEN "Data loading failed"
                    ELSE IF FrameLen(fetch.df) < min_preload_bars
                    THEN "Insufficient data"
                    ELSE IF df_features = <<>> THEN "Features calculation failed"
                    ELSE ""
         IN  /\ fetches' = fetches + 1
             /\ IF msg # ""
                THEN /\ errors' = Append(errors, [symbol |-> symbol, msg |-> msg])
                     /\ symbol_data' = symbol_data
                     /\ scored' = scored
                ELSE /\ errors' = errors
                     /\ symbol_data' = Append(symbol_data, symbol)
                     /\ scored' = scored \cup
                            {[path |-> "run_backtest", symbol |-> symbol,
                              row |-> r] : r \in FrameRows(df_features)}
    /\ li' = li + 1
    /\ UNCHANGED <<pc, args, env, replay_vars, result>>
    /\ UNCHANGED <<feature_vars, scan_vars, univ_vars, call>>

\* lines 1983-1991: after the pre-load loop
BeginReplay ==
    /\ pc = "preload"
    /\ li > Len(args.symbols)
    /\ IF symbol_data = <<>>
       THEN pc' = "done" /\ result' = ErrorResult("No valid symbol data loaded")
       ELSE pc' = "dates" /\ result' = result
    /\ UNCHANGED <<args, env, load_vars, replay_vars>>
    /\ UNCHANGED <<feature_vars, scan_vars, univ_vars, scored, call>>

\* lines 1994-1995: the next date of the merged timeline
NextDate ==
    /\ pc = "dates"
    /\ Len(date_index) < env.horizon
    /\ \E gap \in env.gaps :
         date_index' = Append(date_index,
                              IF date_index = <<>> THEN 0
                              ELSE date_index[Len(date_index)] + gap)
    /\ day_start_equity' = current_equity
    /\ si' = 1
    /\ any_row' = FALSE
    /\ pc' = "bars"
    /\ UNCHANGED <<args, env, load_vars, rows_seen, current_equity, max_equity,
                   max_drawdown, active_positions, trades, equity_curve,
                   daily_returns, total_trades, winning_trades, entries,
                   entry_equity, last, result>>
    /\ UNCHANGED <<feature_vars, scan_vars, univ_vars, scored, call>>

current_date == date_index[Len(date_index)]

\* lines 1999-2000: the symbol has no row on this date
SkipBar ==
    /\ pc = "bars"
    /\ si <= Len(symbol_data)
    /\ ~(si = Len(symbol_data) /\ ~any_row)   \* the date is some symbol's
    /\ si' = si + 1
    /\ UNCHANGED <<pc, args, env, load_vars, date_index, any_row, rows_seen,
                   current_equity, day_start_equity, max_equity, max_drawdown,
                   active_positions, trades, equity_curve, daily_returns,
                   total_trades, winning_trades, entries, entry_equity, last,
                   result>>
    /\ UNCHANGED <<feature_vars, scan_vars, univ_vars, scored, call>>

\* lines 2002-2103: the exit check, then the entry check, on one row
ProcessBar ==
    /\ pc = "bars"
    /\ si <= Len(symbol_data)
    /\ \E row \in env.rows[symbol_data[si]] :
         LET symbol   == symbol_data[si]
             held     == symbol \in DOMAIN active_positions
             position == active_positions[symbol]
             exit     == IF held
                         THEN ExitDecision(position, row, current_date, args.min_score)
                         ELSE NoExit(row)
             trade    == TradeRecord(position, exit, current_date)
             equity1  == IF exit.triggered
                         THEN RAdd(current_equity, trade.trade_pnl)
                         ELSE current_equity
             open1    == IF exit.triggered
                         THEN DictDel(active_positions, symbol)
                         ELSE active_positions
             enter    == EntryAllowed(symbol, open1, row, equity1, args.min_score)
             opened   == NewPosition(symbol, row, current_date, equity1, args)
         IN  /\ current_equity' = equity1
             /\ trades' = IF exit.triggered THEN Append(trades, trade) ELSE trades
             /\ total_trades' = IF exit.triggered THEN total_trades + 1
                                ELSE total_trades
             /\ winning_trades' = IF exit.triggered /\ RLt(R(0), trade.trade_pnl)
                                  THEN winning_trades + 1 ELSE winning_trades
             /\ active_positions' = IF enter THEN DictSet(open1, symbol, opened)
                                    ELSE open1
             /\ entries' = IF enter THEN entries + 1 ELSE entries
             /\ entry_equity' = IF enter THEN DictSet(entry_equity, symbol, equity1)
                                ELSE IF exit.triggered THEN DictDel(entry_equity, symbol)
                                ELSE entry_equity
             /\ last' = [symbol |-> symbol, row |-> row, date |-> current_date,
                         held |-> IF held THEN <<position>> ELSE <<>>]
             /\ rows_seen' = rows_seen \cup {symbol}
    /\ any_row' = TRUE
    /\ si' = si + 1
    /\ UNCHANGED <<pc, args, env, load_vars, date_index, day_start_equity,
                   max_equity, max_drawdown, equity_curve, daily_returns, result>>
    /\ UNCHANGED <<feature_vars, scan_vars, univ_vars, scored, call>>

\* only a gain counts as a change
EquityChangedUp(equity, start) == RLt(start, equity)

EquityChanged(equity, start) == equity # start

\* lines 2105-2122: the end of the date's iteration
EndOfDay ==
    /\ pc = "bars"
    /\ si > Len(symbol_data)
    /\ IF EquityChanged(current_equity, day_start_equity)
       THEN LET daily_pnl == RSub(current_equity, day_start_equity)
                daily_return == IF RLt(R(0), day_start_equity)
                                THEN RDiv(daily_pnl, day_start_equity) ELSE R(0)
            IN  /\ daily_returns' = Append(daily_returns, daily_return)
                /\ equity_curve' = Append(equity_curve,
                       [date |-> current_date, equity |-> current_equity,
                        trade_pnl |-> daily_pnl])
                /\ IF RLt(max_equity, current_equity)
                   THEN max_equity' = current_equity /\ max_drawdown' = max_drawdown
                   ELSE LET drawdown == RDiv(RSub(max_equity, current_equity), max_equity)
                        IN  /\ max_equity' = max_equity
                            /\ max_drawdown' = IF RLt(max_drawdown, drawdown)
                                               THEN drawdown ELSE max_drawdown
       ELSE UNCHANGED <<daily_returns, equity_curve, max_equity, max_drawdown>>
    /\ pc' = "dates"
    /\ UNCHANGED <<args, env, load_vars, date_index, si, any_row, rows_seen,
                   current_equity, day_start_equity, active_positions, trades,
                   total_trades, winning_trades, entries, entry_equity, last,
                   result>>
    /\ UNCHANGED <<feature_vars, scan_vars, univ_vars, scored, call>>

\* positions still open at the end of the data are closed at their entry
\* price and logged
FinishClosingOpen ==
    /\ pc = "dates"
    /\ date_index # <<>>
    /\ rows_seen = Range(symbol_data)
    /\ pc' = "done"
    /\ LET held   == Select(symbol_data, DOMAIN active_positions)
           forced == [i \in DOMAIN held |->
                        TradeRecord(active_positions[held[i]],
                                    [triggered |-> TRUE, reason |-> "end_of_data",
                                     price |-> active_positions[held[i]].entry_price],
                                    current_date)]
           log    == trades \o forced
       IN  result' = [trades |-> log,
                      equity_curve |-> equity_curve,
                      metrics |-> Metrics(args, current_equity, log, Len(log),
                                          winning_trades, max_drawdown,
                                          Len(symbol_data)),
                      symbol_performance |-> SymbolPerformance(args.symbols, log),
                      errors |-> errors]
    /\ UNCHANGED <<args, env, load_vars, replay_vars>>
    /\ UNCHANGED <<feature_vars, scan_vars, univ_vars, scored, call>>

\* lines 2124-2201: the timeline is exhausted
Finish ==
    /\ pc = "dates"
    /\ date_index # <<>>
    /\ rows_seen = Range(symbol_data)      \* every loaded symbol has rows
    /\ pc' = "done"
    /\ result' = [trades |-> trades,
                  equity_curve |-> equity_curve,
                  metrics |-> Metrics(args, current_equity, trades, total_trades,
                                      winning_trades, max_drawdown, Len(symbol_data)),
                  symbol_performance |-> SymbolPerformance(args.symbols, trades),
                  errors |-> errors]
    /\ UNCHANGED <<args, env, load_vars, replay_vars>>
    /\ UNCHANGED <<feature_vars, scan_vars, univ_vars, scored, call>>

Next ==
    \/ Validate
    \/ Preload
    \/ BeginReplay
    \/ NextDate
    \/ SkipBar
    \/ ProcessBar
    \/ EndOfDay
    \/ Finish

-----------------------------------------------------------------------------
(* scan_symbols (src/api/scanner_core.py) and scan_universe (src/app.py)    *)

backtest_vars == <<pc, args, env, load_vars, replay_vars, result>>

\* the rows a path handed to score_row for a symbol
Scored(path, symbol, seen) ==
    {[path |-> path, symbol |-> symbol, row |-> r] : r \in seen}

\* lines 539-544: one future per symbol is submitted to the pool
Submit ==
    /\ scan_pc = "submit"
    /\ pending' = DOMAIN scan_args.symbols
    /\ scan_pc' = "collect"
    /\ UNCHANGED <<market, scan_args, scan_results, scan_errors, attempts>>
    /\ UNCHANGED <<backtest_vars, feature_vars, univ_vars, scored, call>>

\* lines 546-552: as_completed yields the next finished future, which may be
\* any of those pending; its result and error are appended
Collect ==
    /\ scan_pc = "collect"
    /\ \E future \in pending :
         LET symbol   == scan_args.symbols[future]
             min_bars == IF scan_args.is_crypto THEN 100 ELSE 200
             out      == scan_single_symbol(market[symbol], symbol,
                             scan_args.timeframe, scan_args.min_score,
                             scan_args.is_crypto, min_bars)
         IN  /\ scan_results' = scan_results \o out.result
             /\ scan_errors' = scan_errors \o out.error
             /\ attempts' = DictSet(attempts, symbol, out.called)
             /\ scored' = scored \cup Scored("scan_symbols", symbol, out.scored)
             /\ pending' = pending \ {future}
    /\ UNCHANGED <<market, scan_pc, scan_args>>
    /\ UNCHANGED <<backtest_vars, feature_vars, univ_vars, call>>

\* lines 621-624: every future was collected; sort and return
ScanReturn ==
    /\ scan_pc = "collect"
    /\ pending = {}
    /\ scan_results' = sort_desc(scan_results)
    /\ scan_pc' = "done"
    /\ UNCHANGED <<market, scan_args, pending, scan_errors, attempts>>
    /\ UNCHANGED <<backtest_vars, feature_vars, univ_vars, scored, call>>

\* src/app.py lines 1451-1487: one iteration of scan_universe's loop
UniverseSymbol ==
    /\ univ_pc = "loop"
    /\ ui <= Len(univ_args.symbols)
    /\ LET symbol == univ_args.symbols[ui]
           out    == scan_universe_symbol(market[symbol], symbol, univ_args)
       IN  /\ rows' = rows \o out.row
           /\ errs' = errs \o out.error
           /\ scored' = scored \cup Scored("scan_universe", symbol, out.scored)
    /\ ui' = ui + 1
    /\ UNCHANGED <<univ_pc, univ_args>>
    /\ UNCHANGED <<backtest_vars, feature_vars, scan_vars, call>>

\* src/app.py lines 1488-1492: the rows are sorted and returned
UniverseReturn ==
    /\ univ_pc = "loop"
    /\ ui > Len(univ_args.symbols)
    /\ rows' = sort_desc(rows)
    /\ univ_pc' = "done"
    /\ UNCHANGED <<univ_args, ui, errs>>
    /\ UNCHANGED <<backtest_vars, feature_vars, scan_vars, scored, call>>

NextScanners ==
    \/ Submit
    \/ Collect
    \/ ScanReturn
    \/ UniverseSymbol
    \/ UniverseReturn

-----------------------------------------------------------------------------
(* Inputs                                                                   *)

MaxDates == 3

MaxDatesCap == 2

MaxDatesLoad == 2

MaxDatesRuin == 3

Row(c, l, h, s, a) == [close |-> c, low |-> l, high |-> h, score |-> s, atr |-> a]

\* a bar inside the warm-up of the rolling windows: features undefined
Warmup == FeatureRow(R(10), R(10), NaN, NaN, NaN, R(0), NaN, NaN, NaN, NaN)

\* above EMA200, RSI 60, MACD up, volume and width expanding, ATR 2%: 65
Bull == FeatureRow(R(10), R(5), R(10), R(8), R(60), R(1), R(1), R(2), R(1),
                   <<1, 5>>)

\* below EMA200, RSI 40, MACD down, ATR 10%: -45
Bear == FeatureRow(R(10), R(20), R(12), R(10), R(40), R(-1), R(0), R(1), R(1),
                   R(1))

\* above EMA200, RSI 60, MACD down, ATR 10%: 25
Mild == FeatureRow(R(10), R(5), R(12), R(8), R(60), R(-1), R(0), R(1), R(1),
                   R(1))

\* a series of warm undefined bars followed by n bars equal to row
Frame(warm, n, row) ==
    (IF warm = 0 THEN <<>> ELSE <<[n |-> warm, row |-> Warmup]>>)
    \o (IF n = 0 THEN <<>> ELSE <<[n |-> n, row |-> row]>>)

\* a provider's or a fetch's answer
Delivers(df) == [raises |-> FALSE, reason |-> "", df |-> df,
                 dollar_volume |-> R(1000)]

Raises(reason) == [raises |-> TRUE, reason |-> reason, df |-> <<>>,
                   dollar_volume |-> R(0)]

Loaded == Delivers(Frame(50, 200, Bull))

LongAtStop == Row(2, 2, 2, 45, 0)     \* enters long, ATR 0: the stop is the entry

LongRisk == Row(2, 1, 3, 45, 2)       \* enters long under the 20% cap, stop at 1

ShortAtStop == Row(1, 1, 1, 0, 0)     \* enters short when min_score = 0, ATR 0

Decay == Row(8, 2, 8, -5, 2)          \* score below every threshold, a rally

ShortWide == Row(1, 1, 1, 0, 10)      \* enters short, ATR above the price, stop at 6

Rally == Row(5, 2, 5, -5, 2)          \* score decayed, high under that stop

Args(symbols, days_diff, timeframe, risk_per_trade, stop_atr_mult, min_score) ==
    [symbols        |-> symbols,
     days_diff      |-> days_diff,
     timeframe      |-> timeframe,
     initial_equity |-> R(1000),
     risk_per_trade |-> risk_per_trade,
     stop_atr_mult  |-> stop_atr_mult,
     min_score      |-> min_score]

\* two symbols, long and short entries, every exit, threshold 0
Init ==
    InitWith(Args(<<"S1", "S2">>, 365, "1D", <<1, 20>>, <<1, 2>>, 0),
             [rows |-> [s \in {"S1", "S2"} |->
                          IF s = "S1"
                          THEN {LongAtStop, LongRisk, ShortAtStop, Decay}
                          ELSE {LongRisk}],
              gaps |-> {1, 20}, fetch |-> {Loaded}, horizon |-> MaxDates])

Spec == Init /\ [][Next]_vars

CapSymbols == <<"S1", "S2", "S3", "S4", "S5", "S6">>

\* more symbols than max_positions, the default parameters, one row that
\* enters and leaves by time only
InitCap ==
    InitWith(Args(CapSymbols, 365, "1D", <<1, 100>>, <<3, 2>>, 10),
             [rows |-> [s \in Range(CapSymbols) |-> {Row(4, 3, 5, 45, 2)}],
              gaps |-> {20}, fetch |-> {Loaded}, horizon |-> MaxDatesCap])

SpecCap == InitCap /\ [][Next]_vars

\* every kind of date range and of load failure
InitLoad ==
    \E days_diff \in {-1, 0, 1, 29, 30, 60, 61}, timeframe \in {"1D", "1h"} :
        InitWith(Args(<<"S1", "S2">>, days_diff, timeframe, <<1, 20>>, <<1, 2>>, 10),
                 [rows |-> [s \in {"S1", "S2"} |-> {LongRisk, Decay}],
                  gaps |-> {20},
                  fetch |-> {Loaded,
                             Raises("No yfinance data"),
                             Delivers(Frame(0, 0, Bull)),
                             Delivers(Frame(38, 11, Bull)),
                             Delivers(Frame(50, 0, Bull))},
                  horizon |-> MaxDatesLoad])

SpecLoad == InitLoad /\ [][Next]_vars

\* the whole equity risked per trade, consecutive days (no time exit), shorts
\* that lose four times their stake before the stop
InitRuin ==
    InitWith(Args(<<"S1", "S2">>, 365, "1D", <<1, 1>>, <<1, 2>>, 0),
             [rows |-> [s \in {"S1", "S2"} |-> {ShortWide, Rally, LongRisk}],
              gaps |-> {1}, fetch |-> {Loaded}, horizon |-> MaxDatesRuin])

SpecRuin == InitRuin /\ [][Next]_vars

\* no run_backtest call under way
BacktestIdle ==
    /\ pc = "idle"
    /\ InitBacktest(Args(<<>>, 0, "1D", R(0), R(0), 0),
                    [rows |-> EmptyDict, gaps |-> {}, fetch |-> {}, horizon |-> 0])

MaxSymbols == 2

SymbolPool == <<"S1", "S2", "S3", "S4", "S5">>

ScanSymbols == SubSeq(SymbolPool, 1, MaxSymbols)

Feed(yfinance, alpha_vantage) ==
    [yfinance |-> yfinance, alpha_vantage |-> alpha_vantage]

\* both providers raise
AllFail == Feed(Raises("yfinance fetch failed: empty DataFrame"),
                Raises("Alpha Vantage rate limit reached"))

\* yfinance returns 5 bars without raising, Alpha Vantage a full series
ShortThenGood == Feed(Delivers(Frame(0, 5, Bull)), Delivers(Frame(50, 200, Bear)))

\* yfinance raises, Alpha Vantage has 350 bars
RaiseThenGood == Feed(Raises("yfinance fetch failed: timeout"),
                      Delivers(Frame(50, 300, Bull)))

\* 205 bars, the last ones scoring 25
Bars205 == Feed(Delivers(Frame(5, 200, Mild)), Delivers(Frame(5, 200, Mild)))

\* 150 bars, the last ones scoring 65
Bars150 == Feed(Delivers(Frame(50, 100, Bull)), Delivers(Frame(50, 100, Bull)))

\* 250 bars and every one inside a warm-up or with a zero volume average
NoFeatures == Feed(Delivers(Frame(250, 0, Bull)), Delivers(Frame(250, 0, Bull)))

\* 250 bars, the last ones scoring 65
Bars250 == Feed(Delivers(Frame(50, 200, Bull)), Delivers(Frame(50, 200, Bull)))

\* 350 bars, the last ones scoring -45
Bars350 == Feed(Delivers(Frame(50, 300, Bear)), Delivers(Frame(50, 300, Bear)))

Feeds == {AllFail, ShortThenGood, RaiseThenGood, Bars205, Bars150, NoFeatures,
          Bars250, Bars350}

Markets == [Range(ScanSymbols) -> Feeds]

\* a scan_symbols call alone
InitScan ==
    \E m \in Markets, timeframe \in {"1d", "1h"}, is_crypto \in BOOLEAN,
       min_score \in {0, 50} :
        /\ BacktestIdle
        /\ UniverseIdle
        /\ market = m
        /\ scan_pc = "submit"
        /\ scan_args = [symbols |-> ScanSymbols, timeframe |-> timeframe,
                        min_score |-> min_score, is_crypto |-> is_crypto]
        /\ pending = {}
        /\ scan_results = <<>>
        /\ scan_errors = <<>>
        /\ attempts = EmptyDict
        /\ scored = {}
        /\ call = EmptyDict
        /\ FeaturesIdle

\* a scan_universe call alone, the sidebar's default risk settings
InitUniverse ==
    \E m \in Markets, timeframe \in {"1d", "1h"}, is_crypto \in BOOLEAN,
       min_vol \in {R(500), R(5000)} :
        /\ BacktestIdle
        /\ ScanIdle
        /\ market = m
        /\ univ_pc = "loop"
        /\ univ_args = [symbols |-> ScanSymbols, timeframe |-> timeframe,
                        is_crypto |-> is_crypto, account_equity |-> R(1000),
                        risk_pct |-> <<1, 100>>, stop_mult |-> <<3, 2>>,
                        min_vol |-> min_vol]
        /\ ui = 1
        /\ rows = <<>>
        /\ errs = <<>>
        /\ scored = {}
        /\ call = EmptyDict
        /\ FeaturesIdle

InitScanners == InitScan \/ InitUniverse

SpecScanners == InitScanners /\ [][NextScanners]_vars


\* a call of any of the three functions that score: run_backtest,
\* scan_symbols or scan_universe
InitPaths == InitLoad \/ InitScanners

NextPaths == Next \/ NextScanners

SpecPaths == InitPaths /\ [][NextPaths]_vars

-----------------------------------------------------------------------------
(* Series and their features                                                *)
(*                                                                          *)
(* A provider's series is given by its shape: the first close, the change   *)
(* from bar to bar and the volume as run-length sequences [n, v] read       *)
(* cyclically, and the distance of high and low from the close.  Each       *)
(* state holds the series as delivered up to some bar and the frame         *)
(* compute_features makes of it.                                            *)

MaxBars == 250

run(n, v) == [n |-> n, v |-> v]

RECURSIVE period(_)
period(runs) == IF runs = <<>> THEN 0 ELSE runs[1].n + period(Tail(runs))

RECURSIVE within(_, _)
within(runs, t) ==
    IF t <= runs[1].n THEN runs[1].v ELSE within(Tail(runs), t - runs[1].n)

\* the t-th value of the runs, read round and round
run_value(runs, t) == within(runs, ((t - 1) % period(runs)) + 1)

Shape(start, moves, spread, volumes) ==
    [start |-> start, moves |-> moves, spread |-> spread, volumes |-> volumes]

Steady == <<run(1, 1000)>>

\* strictly rising by 1 a bar from 100, stable volume
Rising == Shape(100, <<run(1, 1)>>, 1, Steady)

\* strictly rising by 2 a bar from 50, high = low = close
RisingFast == Shape(50, <<run(1, 2)>>, 0, Steady)

\* strictly rising, by 2 a bar for 200 bars and by 1 after
Slowing == Shape(50, <<run(200, 2), run(200, 1)>>, 1, Steady)

\* strictly rising, by 1 a bar for 225 bars and by 2 after
Quickening == Shape(50, <<run(225, 1), run(200, 2)>>, 1, Steady)

\* strictly rising by 1 a bar, a bar's range 40 wide
WideRange == Shape(100, <<run(1, 1)>>, 20, Steady)

\* the same close on every bar
Flat == Shape(100, <<run(1, 0)>>, 1, Steady)

\* flat for 5 changes, rising after
FlatThenRising == Shape(100, <<run(5, 0), run(400, 1)>>, 1, Steady)

\* strictly falling by 1 a bar from 400
Falling == Shape(400, <<run(1, -1)>>, 1, Steady)

\* three bars up by 2, two bars down by 1, again and again
Zigzag == Shape(100, <<run(3, 2), run(2, -1)>>, 1, Steady)

\* two bars down by 2, three bars up by 1, with a volume peak every 20th bar
Sagging == Shape(400, <<run(2, -2), run(3, 1)>>, 2, <<run(19, 1000), run(1, 3000)>>)

\* rising, volume 0 on every bar
NoVolume == Shape(100, <<run(1, 1)>>, 1, <<run(1, 0)>>)

\* up and down, volume 0 on every bar
NoVolumeZigzag == Shape(100, <<run(3, 2), run(2, -1)>>, 1, <<run(1, 0)>>)

\* up and down, volume 0 from bar 226 on
VolumeDriesUp == Shape(100, <<run(3, 2), run(2, -1)>>, 1, <<run(225, 1000), run(200, 0)>>)

Shapes == {Rising, RisingFast, Slowing, Quickening, WideRange, Flat,
           FlatThenRising, Falling, Zigzag, Sagging, NoVolume, NoVolumeZigzag,
           VolumeDriesUp}

\* bar t of the series, after the bars delivered so far
Bar(s, t, before) ==
    LET close == IF t = 1 THEN s.start
                 ELSE before[t - 1].close + run_value(s.moves, t - 1)
    IN  [close |-> close, high |-> close + s.spread, low |-> close - s.spread,
         volume |-> run_value(s.volumes, t)]

\* the provider has one more bar: the series grows and compute_features
\* has one more row
NextBar ==
    /\ shape # EmptyDict
    /\ Len(ohlcv) < MaxBars
    /\ LET df   == Append(ohlcv, Bar(shape, Len(ohlcv) + 1, ohlcv))
           step == compute_features(df, averages, computed)
       IN  /\ ohlcv' = df
           /\ averages' = step.avg
           /\ computed' = Append(computed, [n |-> 1, row |-> step.row])
    /\ call' = EmptyDict
    /\ UNCHANGED <<shape, backtest_vars, scan_vars, univ_vars, scored>>

\* what get_ohlcv returns for the series as delivered so far
Provided ==
    [raises |-> FALSE, reason |-> "", df |-> computed,
     dollar_volume |-> dollar_volume(ohlcv)]

\* the series as delivered so far is scanned, by _scan_single_symbol as a
\* stock on the daily timeframe and by scan_universe
ScanSeries ==
    /\ shape # EmptyDict
    /\ ohlcv # <<>>
    /\ call = EmptyDict
    /\ \E is_crypto \in BOOLEAN :
         LET feed == Feed(Provided, Provided)
         IN  call' = [fn |-> "scan",
                      input |-> [is_crypto |-> is_crypto],
                      out |-> [scan_symbols |->
                                   scan_single_symbol(feed, "S1", "1d", 0,
                                                      is_crypto,
                                                      IF is_crypto THEN 100 ELSE 200),
                               scan_universe |->
                                   scan_universe_symbol(feed, "S1",
                                       [timeframe |-> "1d", is_crypto |-> is_crypto,
                                        account_equity |-> R(10000),
                                        risk_pct |-> <<1, 100>>,
                                        stop_mult |-> <<3, 2>>,
                                        min_vol |-> R(500)])]]
    /\ UNCHANGED <<feature_vars, backtest_vars, scan_vars, univ_vars, scored>>

InitFeatures ==
    /\ BacktestIdle
    /\ market = EmptyDict
    /\ ScanIdle
    /\ UniverseIdle
    /\ scored = {}
    /\ call = EmptyDict
    /\ shape \in Shapes
    /\ ohlcv = <<>>
    /\ averages = no_averages
    /\ computed = <<>>

NextFeatures == NextBar \/ ScanSeries

SpecFeatures == InitFeatures /\ [][NextFeatures]_vars

-----------------------------------------------------------------------------
(* Calls of the pure functions                                              *)

ScoreInputs ==
    {FeatureRow(R(10), ema200, close_20_max, close_20_min, rsi, macd_hist,
                vol_z, bb_width, R(1), atr) :
        ema200 \in {R(5), R(20)}, close_20_max \in {R(8), R(12)},
        close_20_min \in {R(8), R(12)}, rsi \in {R(10), R(60), R(90)},
        macd_hist \in {R(-1), R(1)}, vol_z \in {R(0), R(1)},
        bb_width \in {R(1), R(2)}, atr \in {<<1, 5>>, R(1)}}
    \cup {[Bull EXCEPT ![column] = value] :
            column \in {"rsi", "macd_hist", "vol_z", "bb_width", "bb_width_ma",
                        "atr", "close"},
            value \in {NaN, R(0), <<1, 2>>, <<2, 5>>, R(20), R(50), R(80)}}

SizingInputs ==
    [row            : {[Bull EXCEPT !.close = close, !.atr = atr] :
                          close \in {R(3), R(10)},
                          atr \in {R(0), <<1, 5>>, R(1), R(7)}},
     direction      : {"Bullish", "Bearish"},
     account_equity : {R(100), R(1000), R(12345)},
     risk_pct       : {<<1, 1000>>, <<1, 100>>, <<1, 10>>},
     stop_mult      : {<<1, 2>>, <<3, 2>>, R(5)}]

\* score_row is called on a row
CallScoreRow ==
    /\ \E r \in ScoreInputs :
         call' = [fn |-> "score_row", input |-> r, out |-> score_row(r)]
    /\ UNCHANGED <<backtest_vars, feature_vars, scan_vars, univ_vars, scored>>

\* position_sizing is called
CallPositionSizing ==
    /\ \E i \in SizingInputs :
         call' = [fn |-> "position_sizing", input |-> i,
                  out |-> position_sizing(i.row, i.direction, i.account_equity,
                                          i.risk_pct, i.stop_mult)]
    /\ UNCHANGED <<backtest_vars, feature_vars, scan_vars, univ_vars, scored>>

\* nothing but calls of the pure functions: no scan or backtest under way
InitCalls ==
    /\ BacktestIdle
    /\ market = EmptyDict
    /\ ScanIdle
    /\ UniverseIdle
    /\ scored = {}
    /\ call = EmptyDict
    /\ FeaturesIdle

SpecScore == InitCalls /\ [][CallScoreRow]_vars

SpecSizing == InitCalls /\ [][CallPositionSizing]_vars

\* one feature row as the last valid row of a symbol, handed to the three
\* paths that score it: _scan_single_symbol, scan_universe and the entry of
\* run_backtest (whose rows carry score_row's value in their score column)
CallDirection ==
    /\ call = EmptyDict
    /\ \E r \in {x \in ScoreInputs : Defined(x)}, min_score \in {0, 10} :
         LET feed    == Feed(Delivers(Frame(50, 250, r)), Delivers(Frame(50, 250, r)))
             scanned == scan_single_symbol(feed, "S1", "1d", min_score, FALSE, 200)
             listed  == scan_universe_symbol(feed, "S1",
                            [timeframe |-> "1d", is_crypto |-> FALSE,
                             account_equity |-> R(1000), risk_pct |-> <<1, 100>>,
                             stop_mult |-> <<3, 2>>, min_vol |-> R(500)])
             row     == [score |-> score_row(r)]
             entered == EntryAllowed("S1", EmptyDict, row, R(1000), min_score)
         IN  call' = [fn |-> "direction",
                      input |-> [row |-> r, min_score |-> min_score],
                      out |-> [score |-> score_row(r),
                               scan_symbols |->
                                   IF scanned.result = None THEN None
                                   ELSE Some(scanned.result[1].direction),
                               scan_universe |->
                                   IF listed.row = None THEN None
                                   ELSE Some(listed.row[1].direction),
                               run_backtest |->
                                   IF entered THEN Some(Direction(row)) ELSE None]]
    /\ UNCHANGED <<backtest_vars, feature_vars, scan_vars, univ_vars, scored>>

SpecDirection == InitCalls /\ [][CallDirection]_vars

-----------------------------------------------------------------------------
(* Properties                                                               *)

Open == DOMAIN active_positions

Stepped == last # NoStep

LastTrade == trades[Len(trades)]

\* the last bar step closed the position its symbol held
LastStepClosed ==
    /\ Stepped
    /\ last.held # <<>>
    /\ trades # <<>>
    /\ LastTrade.symbol = last.symbol
    /\ LastTrade.exit_date = last.date
    /\ LastTrade.entry_date = last.held[1].entry_date

\* the last bar step opened a position
LastStepOpened ==
    /\ Stepped
    /\ last.symbol \in Open
    /\ active_positions[last.symbol].entry_date = last.date

\* C1: after every step of the replay the number of open positions across
\* all symbols is at most max_positions.
OpenPositionsWithinCap == Cardinality(Open) <= max_positions

\* the cap is full and the bar just processed, of a flat symbol with a
\* qualifying score, opened nothing
CapSuppressedEntry ==
    /\ Stepped
    /\ Cardinality(Open) = max_positions
    /\ last.symbol \notin Open
    /\ last.row.score >= args.min_score
    /\ RLt(R(0), current_equity)

\* C2: whenever the stop of the held position triggers on a bar, the Trade
\* recorded for that bar has exit_reason stop_loss and exit_price equal to the
\* position's stop_price, for every holding duration.
StopFillsAtStopPrice ==
    (Stepped /\ last.held # <<>> /\ StopHit(last.held[1], last.row))
        => /\ LastStepClosed
           /\ LastTrade.exit_reason = "stop_loss"
           /\ LastTrade.exit_price = last.held[1].stop_price

\* C3: on a bar where the stop is not hit but the score has decayed and 20
\* days have passed, the Trade's exit_reason is score_exit, not time_exit.
ScoreExitBeforeTimeExit ==
    (/\ Stepped
     /\ last.held # <<>>
     /\ ~StopHit(last.held[1], last.row)
     /\ ScoreDecayed(last.row, args.min_score)
     /\ HeldDays(last.held[1], last.date) >= hold_days)
        => /\ LastStepClosed
           /\ LastTrade.exit_reason = "score_exit"

\* C4: a symbol holds at most one position, filed under its own name, every
\* exit leaves one Trade, and entries = Trades logged + open positions.
EntriesAreTradesPlusOpen ==
    /\ \A s \in Open : active_positions[s].symbol = s
    /\ Open \subseteq Range(symbol_data)
    /\ total_trades = Len(trades)
    /\ entries = Len(trades) + Cardinality(Open)
    /\ \A s \in Open : \A i \in DOMAIN trades :
           trades[i].symbol = s => trades[i].exit_date <= active_positions[s].entry_date

\* a symbol was closed and opened again, and a Trade is logged
ClosedAndReopened ==
    /\ LastStepClosed
    /\ LastStepOpened
    /\ entries = Len(trades) + 1

\* C5 as stated: a flat symbol's bar with capacity left and score >=
\* min_score always opens a position at the bar's close, whatever the equity.
EntryWhateverEquity ==
    Stepped =>
        /\ last.symbol \notin Open
              => ~(Cardinality(Open) < max_positions /\ last.row.score >= args.min_score)
        /\ LastStepOpened
              => active_positions[last.symbol].entry_price = R(last.row.close)

\* C5 amended: a flat symbol's bar with capacity left, score >= min_score and
\* current equity > 0 always opens a position at the bar's close.
EntryWhenEquityPositive ==
    Stepped =>
        /\ last.symbol \notin Open
              => ~(/\ Cardinality(Open) < max_positions
                   /\ last.row.score >= args.min_score
                   /\ RLt(R(0), current_equity))
        /\ LastStepOpened
              => active_positions[last.symbol].entry_price = R(last.row.close)

\* a bar at the threshold score opened a position
EnteredAtThreshold ==
    /\ LastStepOpened
    /\ last.row.score = args.min_score

\* C6: every position has, from the moment it is opened, position_value <=
\* 20% of the equity of that moment, also for ATR 0, and position_size =
\* position_value / entry_price.
PositionValueWithinCap ==
    \A s \in Open :
        /\ RLe(active_positions[s].position_value, RMul(entry_equity[s], position_cap))
        /\ active_positions[s].position_size =
               RDiv(active_positions[s].position_value, active_positions[s].entry_price)

\* a position opened with stop distance 0 beside one sized below the cap
ZeroStopDistanceSized ==
    /\ \E s \in Open : active_positions[s].stop_price = active_positions[s].entry_price
    /\ \E s \in Open : RLt(active_positions[s].position_value,
                            RMul(entry_equity[s], position_cap))

ExpectedReturn(t) ==
    IF t.direction = "long"
    THEN RDiv(RSub(t.exit_price, t.entry_price), t.entry_price)
    ELSE RDiv(RSub(t.entry_price, t.exit_price), t.entry_price)

\* C7: each Trade's P&L is its realized return times the position value, the
\* return by the direction's formula, and equity is initial_equity plus the
\* sum of trade_pnl over the trade log, at every point and in the metrics.
EquityIsInitialPlusPnl ==
    /\ \A i \in DOMAIN trades :
           /\ trades[i].trade_return = ExpectedReturn(trades[i])
           /\ trades[i].trade_pnl =
                  RMul(trades[i].trade_return,
                       RMul(trades[i].position_size, trades[i].entry_price))
    /\ current_equity = RAdd(args.initial_equity, RSum(Pnls(trades)))
    /\ (pc = "done" /\ "equity_curve" \in DOMAIN result)
           => result.metrics.final_equity =
                  RAdd(args.initial_equity, RSum(Pnls(result.trades)))

\* a finished run with a losing short Trade and a winning long Trade
ShortAndLongSettled ==
    /\ pc = "done"
    /\ \E i \in DOMAIN trades :
           trades[i].direction = "short" /\ RLt(trades[i].trade_pnl, R(0))
    /\ \E i \in DOMAIN trades :
           trades[i].direction = "long" /\ RLt(R(0), trades[i].trade_pnl)

\* the dates whose iteration is complete
DatesDone ==
    {date_index[i] : i \in {j \in DOMAIN date_index : pc # "bars" \/ j < Len(date_index)}}

ClosedOn(d) == Select(trades, {t \in Range(trades) : t.exit_date = d})

PointsOn(d) == Cardinality({i \in DOMAIN equity_curve : equity_curve[i].date = d})

\* C8 as stated: one EquityCurvePoint for every date on which a trade
\* closed, also when the closed trades have zero net P&L, none for the others.
PointPerClosingDate ==
    \A d \in DatesDone : PointsOn(d) = IF ClosedOn(d) # <<>> THEN 1 ELSE 0

\* C8 amended: one EquityCurvePoint for every date on which the closed
\* trades have a net P&L other than zero, none for every other date.
PointPerEquityChange ==
    \A d \in DatesDone :
        PointsOn(d) = IF RSum(Pnls(ClosedOn(d))) # R(0) THEN 1 ELSE 0

\* a date with a loss and its point, and a date whose trades netted zero
LossAndBreakEvenDates ==
    /\ \E d \in DatesDone :
           RLt(RSum(Pnls(ClosedOn(d))), R(0)) /\ PointsOn(d) = 1
    /\ \E d \in DatesDone :
           ClosedOn(d) # <<>> /\ RSum(Pnls(ClosedOn(d))) = R(0) /\ PointsOn(d) = 0

InvalidRange ==
    \/ args.days_diff <= 0
    \/ args.days_diff < min_span_days
    \/ (args.timeframe \in IntradayTimeframes /\ args.days_diff > max_intraday_span_days)

\* C9: with end date <= start date, a span under 30 days or an intraday span
\* over 60 days, the call returns an error with empty trades and metrics and
\* get_ohlcv is never called.
InvalidRangeRejectedUnfetched ==
    InvalidRange =>
        /\ fetches = 0
        /\ pc \in {"validate", "done"}
        /\ pc = "done" => /\ "error" \in DOMAIN result
                          /\ result.trades = <<>>
                          /\ DOMAIN result.metrics = {}

\* a call with end date = start date has returned
EqualDatesRejected ==
    /\ pc = "done"
    /\ args.days_diff = 0
    /\ "error" \in DOMAIN result

FailedSymbols == Range(args.symbols) \ Range(symbol_data)

\* C10: the returned bundle's errors list names every symbol whose load
\* failed, also when every symbol failed.
FailedSymbolsReported ==
    (pc = "done" /\ ~InvalidRange) =>
        /\ "errors" \in DOMAIN result
        /\ \A s \in FailedSymbols :
               \E i \in DOMAIN result.errors : result.errors[i].symbol = s

-----------------------------------------------------------------------------
(* The scanners                                                             *)

SymbolsOf(entries_) == {entries_[i].symbol : i \in DOMAIN entries_}

ScanDone == scan_pc = "done"

UniverseDone == univ_pc = "done"

\* a provider's answer the router does not accept
ProviderFails(answer) ==
    answer.raises \/ FrameLen(answer.df) < min_router_bars

\* every provider the router called for the symbol failed
EveryAttemptFailed(symbol) ==
    \A provider \in Range(attempts[symbol]) :
        ProviderFails(market[symbol][provider])

ScanFailing == {s \in Range(scan_args.symbols) : EveryAttemptFailed(s)}

UniverseFailing ==
    {s \in Range(univ_args.symbols) : market[s]["yfinance"].raises}

\* the results of scanning each of the symbols on its own
ScannedAlone(symbols) ==
    UNION {Range(scan_single_symbol(market[s], s, scan_args.timeframe,
                                    scan_args.min_score, scan_args.is_crypto,
                                    IF scan_args.is_crypto THEN 100 ELSE 200).result)
           : s \in symbols}

UniverseAlone(symbols) ==
    UNION {Range(scan_universe_symbol(market[s], s, univ_args).row)
           : s \in symbols}

\* C11: when scan_symbols or scan_universe has returned, every symbol whose
\* provider attempts all failed is in the errors and not in the results, and
\* the results are those of scanning the other symbols without it
FailingSymbolIsolated ==
    /\ ScanDone =>
          /\ ScanFailing \subseteq SymbolsOf(scan_errors)
          /\ ScanFailing \cap SymbolsOf(scan_results) = {}
          /\ Range(scan_results)
               = ScannedAlone(Range(scan_args.symbols) \ ScanFailing)
    /\ UniverseDone =>
          /\ UniverseFailing \subseteq SymbolsOf(errs)
          /\ UniverseFailing \cap SymbolsOf(rows) = {}
          /\ Range(rows) = UniverseAlone(Range(univ_args.symbols) \ UniverseFailing)

\* scan_symbols has returned a result for one symbol and an error for
\* another whose providers both raised
FailedBesideScored ==
    /\ ScanDone
    /\ scan_results # <<>>
    /\ \E s \in ScanFailing : attempts[s] = <<"yfinance", "alpha_vantage">>

Descending(list) ==
    \A i, j \in DOMAIN list : i < j => ~RLt(list[i].score, list[j].score)

\* C12: the results scan_symbols returns and the rows scan_universe returns
\* are ordered by score, highest first, never rising
ResultsByScoreDescending ==
    /\ ScanDone => Descending(scan_results)
    /\ UniverseDone => Descending(rows)

\* scan_universe has returned a later symbol's row ahead of an earlier
\* symbol's row of lower score
SortMovedRowUp ==
    /\ UniverseDone
    /\ Len(rows) = 2
    /\ rows[1].symbol = univ_args.symbols[2]
    /\ rows[2].symbol = univ_args.symbols[1]
    /\ RLt(rows[2].score, rows[1].score)

RECURSIVE InInputOrder(_)
\* the results of the symbols, each scanned on its own, in input order
InInputOrder(symbols) ==
    IF symbols = <<>> THEN <<>>
    ELSE scan_single_symbol(market[symbols[1]], symbols[1], scan_args.timeframe,
                            scan_args.min_score, scan_args.is_crypto,
                            IF scan_args.is_crypto THEN 100 ELSE 200).result
         \o InInputOrder(Tail(symbols))

\* C13: the sequence scan_symbols returns is fixed by the per-symbol
\* outcomes alone: whatever order the futures complete in, it is the one
\* returned when they complete in input order, equal scores included
CompletionOrderInvisible ==
    ScanDone => scan_results = sort_desc(InInputOrder(scan_args.symbols))

InResults(symbol) == symbol \in SymbolsOf(scan_results)

InErrors(symbol) == symbol \in SymbolsOf(scan_errors)

\* the symbol's last valid row was scored below the caller's threshold
ScoredBelowThreshold(symbol) ==
    \E e \in scored : /\ e.path = "scan_symbols"
                      /\ e.symbol = symbol
                      /\ score_row(e.row) < scan_args.min_score

\* C14 as claimed: after scan_symbols returns, every input symbol is in
\* exactly one of results and errors
EverySymbolResultOrError ==
    ScanDone => \A s \in Range(scan_args.symbols) : InResults(s) # InErrors(s)

\* C14: after scan_symbols returns, no input symbol is in both results and
\* errors, and a symbol is in neither exactly when its last valid row scored
\* below min_score
SymbolResultErrorOrFiltered ==
    ScanDone =>
        \A s \in Range(scan_args.symbols) :
            /\ ~(InResults(s) /\ InErrors(s))
            /\ (~InResults(s) /\ ~InErrors(s)) <=> ScoredBelowThreshold(s)

\* scan_symbols has returned with one symbol filtered out by its score and
\* the other one reported
FilteredBesideReported ==
    /\ ScanDone
    /\ \E s \in Range(scan_args.symbols) : ~InResults(s) /\ ~InErrors(s)
    /\ \E s \in Range(scan_args.symbols) : InResults(s)

-----------------------------------------------------------------------------
(* score_row and position_sizing                                            *)

Points(condition, yes, no) == IF condition THEN yes ELSE no

Gt(a, b) == RLt(b, a)

\* the spec's scoring table, read off a row
TableScore(r) ==
      Points(Gt(r.close, r.ema200), 25, -25)
    + Points(Gt(r.close, r.close_20_max), 25, 0)
    + Points(RLt(r.close, r.close_20_min), -25, 0)
    + Points(Gt(r.rsi, R(50)), 10, -10)
    + Points(Gt(r.macd_hist, R(0)), 10, -10)
    + Points(Gt(r.vol_z, <<1, 2>>), 8, 0)
    + Points(Gt(r.bb_width, r.bb_width_ma), 7, 0)
    + Points(RLt(RDiv(r.atr, r.close), <<1, 25>>), 5, 0)
    + Points(Gt(r.rsi, R(80)), -10, 0)
    + Points(RLt(r.rsi, R(20)), 10, 0)

ScoreCalled == call # EmptyDict /\ call.fn = "score_row"

\* C15: whatever was called before, score_row's value on a row is the sum
\* of the table's points for the predicates that hold of the row
ScoreIsTableSum ==
    ScoreCalled => call.out = TableScore(call.input)

\* score_row has been called on a breakout row with RSI above 80
OverboughtBreakoutScored ==
    /\ ScoreCalled
    /\ Gt(call.input.rsi, R(80))
    /\ Gt(call.input.close, call.input.close_20_max)
    /\ Gt(call.input.close, call.input.ema200)

SizingCalled == call # EmptyDict /\ call.fn = "position_sizing"

\* the stop the claim states for the call's direction
ClaimedStop(i) ==
    IF i.direction = "Bullish"
    THEN RSub(i.row.close, RMul(i.stop_mult, i.row.atr))
    ELSE RAdd(i.row.close, RMul(i.stop_mult, i.row.atr))

PerUnitRisk(i) == RAbs(RSub(i.row.close, ClaimedStop(i)))

\* C16: position_sizing returns the stop close -/+ stop_mult*ATR, risk
\* dollars equity*risk_pct, units the largest whole number whose risk fits
\* the risk dollars when the per-unit risk is positive and 0 when it is
\* zero, never raising, notional units*close, and units a natural number
UnitsAreFlooredRisk ==
    SizingCalled =>
        LET i     == call.input
            out   == call.out
            risk  == RMul(i.account_equity, i.risk_pct)
            units == out.size_units
        IN  /\ ~out.raises
            /\ out.stop_price = ClaimedStop(i)
            /\ out.risk_dollars = risk
            /\ units \in Nat
            /\ out.notional = RMul(R(units), i.row.close)
            /\ IF RLt(R(0), PerUnitRisk(i))
               THEN /\ RLe(RMul(R(units), PerUnitRisk(i)), risk)
                    /\ RLt(risk, RMul(R(units + 1), PerUnitRisk(i)))
               ELSE units = 0

\* position_sizing has sized a short whose risk dollars are not a whole
\* multiple of the per-unit risk
ShortSizeRoundedDown ==
    /\ SizingCalled
    /\ call.input.direction = "Bearish"
    /\ call.out.size_units > 0
    /\ RLt(RMul(R(call.out.size_units), PerUnitRisk(call.input)),
           call.out.risk_dollars)

-----------------------------------------------------------------------------
(* The router                                                               *)

\* the provider preference list of the call's asset class
Preference ==
    IF scan_args.is_crypto THEN <<"alpha_vantage", "yfinance">>
    ELSE <<"yfinance", "alpha_vantage">>

\* the router's own failure is the symbol's error entry
RouterFailed(symbol) ==
    \E i \in DOMAIN scan_errors :
        /\ scan_errors[i].symbol = symbol
        /\ scan_errors[i].error[1] = "All data sources failed for "

\* C17: for every symbol fetched, the router called the first provider and,
\* when that one raised or returned too few bars, the second one, and no
\* provider after one that returned enough bars; it failed only after
\* calling every provider of the list
FallbackOnAnyFailure ==
    \A s \in DOMAIN attempts :
        /\ attempts[s] = IF ProviderFails(market[s][Preference[1]])
                         THEN Preference ELSE <<Preference[1]>>
        /\ RouterFailed(s) => attempts[s] = Preference

\* C18: when the router failed for a symbol, the symbol's error entry
\* carries the failure reason of every provider that was called
FailureCarriesReasons ==
    \A i \in DOMAIN scan_errors :
        LET e == scan_errors[i]
        IN  e.error[1] = "All data sources failed for " =>
                \A provider \in Range(attempts[e.symbol]) :
                    market[e.symbol][provider].raises =>
                        market[e.symbol][provider].reason \in Range(e.error)

-----------------------------------------------------------------------------
(* Minimum history and undefined features                                   *)

\* the minimum the claim states for a timeframe
ClaimedMinBars(tf) ==
    LET t == lower(tf)
    IN  IF t \in {"1d", "d"} THEN 200
        ELSE IF t \in {"1h", "60m"} THEN 350
        ELSE IF t \in {"30m", "15m"} THEN 500
        ELSE 700

\* the symbol's error entry says its series was too short
RejectedAsShort(list, symbol) ==
    \E i \in DOMAIN list :
        /\ list[i].symbol = symbol
        /\ list[i].error[1] \in {"Insufficient data", "Not enough history"}

\* what the router returned to scan_symbols for the symbol
Routed(symbol) == get_ohlcv(market[symbol], symbol, scan_args.is_crypto)

\* C19: a series that was fetched is turned down as too short exactly when
\* it has fewer bars than the minimum of the call's timeframe (200 daily,
\* 350 hourly, 500 for 15/30 minutes, 700 for 1/5 minutes), whatever the
\* asset class, and a series turned down gives no result
AcceptedByTimeframeMinimum ==
    /\ ScanDone =>
          \A s \in Range(scan_args.symbols) :
              ~Routed(s).raises =>
                  /\ RejectedAsShort(scan_errors, s)
                       <=> FrameLen(Routed(s).df) < ClaimedMinBars(scan_args.timeframe)
                  /\ RejectedAsShort(scan_errors, s) => ~InResults(s)
    /\ UniverseDone =>
          \A s \in Range(univ_args.symbols) :
              ~market[s]["yfinance"].raises =>
                  /\ RejectedAsShort(errs, s)
                       <=> FrameLen(market[s]["yfinance"].df)
                              < ClaimedMinBars(univ_args.timeframe)
                  /\ RejectedAsShort(errs, s) => s \notin SymbolsOf(rows)

ScoredRows(path, symbol) ==
    {e \in scored : e.path = path /\ e.symbol = symbol}

\* the pre-load loop of run_backtest is over
Preloaded == pc \in {"dates", "bars", "done"} /\ li > Len(args.symbols)

\* C20: in run_backtest's pre-load, scan_symbols and scan_universe, every
\* row handed to score_row has all its features defined, and a symbol none
\* of whose rows survives dropna gets an error entry and no score
OnlyDefinedRowsScored ==
    /\ \A e \in scored : Defined(e.row)
    /\ ScanDone =>
          \A s \in Range(scan_args.symbols) :
              (~Routed(s).raises /\ dropna(Routed(s).df) = <<>>) =>
                  /\ InErrors(s) /\ ~InResults(s)
                  /\ ScoredRows("scan_symbols", s) = {}
    /\ UniverseDone =>
          \A s \in Range(univ_args.symbols) :
              (~market[s]["yfinance"].raises
                 /\ dropna(market[s]["yfinance"].df) = <<>>) =>
                  /\ s \in SymbolsOf(errs) /\ s \notin SymbolsOf(rows)
                  /\ ScoredRows("scan_universe", s) = {}
    /\ Preloaded =>
          \A s \in Range(args.symbols) :
              IF s \in SymbolsOf(errors)
              THEN ScoredRows("run_backtest", s) = {} /\ s \notin Range(symbol_data)
              ELSE ScoredRows("run_backtest", s) # {} /\ s \in Range(symbol_data)

\* scan_symbols has returned an error for a symbol whose bars are all
\* undefined and a result for one whose warm-up bars were dropped
WarmupDroppedBeforeScoring ==
    /\ ScanDone
    /\ \E s \in Range(scan_args.symbols) :
          /\ ~Routed(s).raises
          /\ FrameLen(Routed(s).df) >= 200
          /\ dropna(Routed(s).df) = <<>>
          /\ InErrors(s)
    /\ \E s \in Range(scan_args.symbols) :
          /\ InResults(s)
          /\ \E k \in DOMAIN Routed(s).df : ~Defined(Routed(s).df[k].row)

-----------------------------------------------------------------------------
(* Properties of the metrics, the holding period and the bar order          *)

\* the metrics bundle of a finished run
Finished == pc = "done" /\ "metrics" \in DOMAIN result /\ result.metrics # EmptyDict

\* C23: the profit factor of a finished run is |avg_win * wins / (avg_loss *
\* losses)| over the trades with negative P&L when there is one, and
\* infinity when no trade has negative P&L, whatever the trade log
ProfitFactorIsGrossRatio ==
    Finished =>
        LET won  == Wins(result.trades)
            lost == Losses(result.trades)
            pf   == result.metrics.profit_factor
        IN  IF lost # <<>>
            THEN pf = RAbs(RDiv(RMul(result.metrics.avg_win, R(Len(won))),
                                RMul(RMean(Pnls(lost)), R(Len(lost)))))
            ELSE pf = Inf

\* the position a trade closed was opened at that trade's entry date
TradesOf(s) == Select(trades, {t \in Range(trades) : t.symbol = s})

\* C24: a position does not survive a bar of its symbol dated hold_days or
\* more after its entry date: that bar closes it and logs a Trade dated at
\* that bar, and what the symbol holds afterwards was opened on that bar
ClosedAtHoldLimit ==
    (Stepped /\ last.held # <<>>
       /\ HeldDays(last.held[1], last.date) >= hold_days) =>
        /\ LastStepClosed
        /\ LastTrade.holding_days = HeldDays(last.held[1], last.date)
        /\ LastTrade.exit_reason = "time_exit"
        /\ last.symbol \in Open => active_positions[last.symbol].entry_date = last.date

\* the holding limit alone closed a position: neither its stop nor its
\* score asked for an exit on the bar that reached the limit
HoldLimitAloneClosed ==
    /\ LastStepClosed
    /\ LastTrade.holding_days >= hold_days
    /\ ~StopOrScoreExit(last.held[1], last.row, args.min_score).triggered
    /\ LastTrade.exit_reason = "time_exit"

\* C26: on one bar the exit check of a symbol runs before its entry check
\* and a position opened on a bar is not exit-checked on it: every Trade
\* exits strictly after it entered, trades of one symbol do not overlap,
\* and a symbol closed on a bar is opened again at that bar's close when the
\* bar's score is at least min_score and equity is positive (a slot is free
\* once the position is closed)
ExitThenEntryOnOneBar ==
    /\ \A i \in DOMAIN trades : trades[i].exit_date > trades[i].entry_date
    /\ \A i, j \in DOMAIN trades :
          (i < j /\ trades[i].symbol = trades[j].symbol)
              => trades[j].entry_date >= trades[i].exit_date
    /\ \A s \in Open : \A i \in DOMAIN TradesOf(s) :
          active_positions[s].entry_date >= TradesOf(s)[i].exit_date
    /\ (LastStepClosed /\ last.row.score >= args.min_score
          /\ RLt(R(0), current_equity)) =>
            /\ LastStepOpened
            /\ active_positions[last.symbol].entry_price = R(last.row.close)
            /\ active_positions[last.symbol].entry_date = LastTrade.exit_date

\* a symbol has two trades back to back and holds a third position opened
\* on the bar that closed the second
BackToBackTrades ==
    /\ LastStepClosed
    /\ LastStepOpened
    /\ Len(TradesOf(last.symbol)) >= 2
    /\ TradesOf(last.symbol)[2].entry_date = TradesOf(last.symbol)[1].exit_date
    /\ active_positions[last.symbol].entry_date = LastTrade.exit_date

\* the risk budget of a position: the equity at its entry times risk_per_trade
RiskBudget(symbol) == RMul(entry_equity[symbol], args.risk_per_trade)

\* C27: a Trade closed with exit_reason stop_loss loses at most the risk
\* budget of its entry: trade_pnl >= -(equity at entry * risk_per_trade)
StopLossWithinRiskBudget ==
    [][(Len(trades') = Len(trades) + 1
          /\ trades'[Len(trades')].exit_reason = "stop_loss")
         => RLe(RNeg(RiskBudget(trades'[Len(trades')].symbol)),
                trades'[Len(trades')].trade_pnl)]_vars

\* a position entered on the first date, at the initial equity, was stopped
\* out and lost its whole risk budget
StoppedAtRiskBudget ==
    /\ LastStepClosed
    /\ LastTrade.exit_reason = "stop_loss"
    /\ LastTrade.entry_date = date_index[1]
    /\ LastTrade.trade_pnl = RNeg(RMul(args.initial_equity, args.risk_per_trade))
    /\ RLt(LastTrade.trade_pnl, R(0))

\* C28: positions still open when the timeline is exhausted are dropped:
\* the returned trades are the closed ones only, an open position has no
\* Trade of its entry, and final_equity, total_trades and the per-symbol
\* figures are those of the closed trades
OpenPositionsDroppedAtEnd ==
    Finished =>
        /\ result.trades = trades
        /\ Len(result.trades) = entries - Cardinality(Open)
        /\ \A s \in Open : \A i \in DOMAIN TradesOf(s) :
              TradesOf(s)[i].entry_date # active_positions[s].entry_date
        /\ result.metrics.final_equity
              = RAdd(args.initial_equity, RSum(Pnls(result.trades)))
        /\ result.metrics.total_trades = Len(result.trades)
        /\ result.metrics.winning_trades = Len(Wins(result.trades))
        /\ result.symbol_performance = SymbolPerformance(args.symbols, trades)

\* a run returned its closed trades while a position it opened is still held
ReturnedWithOpenPosition ==
    /\ Finished
    /\ Open # {}
    /\ result.trades # <<>>
    /\ entries > result.metrics.total_trades

-----------------------------------------------------------------------------
(* Properties of the direction rule                                         *)

DirectionCalled == call # EmptyDict /\ call.fn = "direction"

long_side(direction) == direction \in {"LONG", "Bullish", "long"}

\* C30: the scanners and the backtest give one feature row the same
\* direction: for every score, 0 included, the side _scan_single_symbol and
\* scan_universe report is the side run_backtest enters on that row
SameDirectionOnEveryPath ==
    DirectionCalled =>
        \A p, q \in {"scan_symbols", "scan_universe", "run_backtest"} :
            (call.out[p] # None /\ call.out[q] # None)
                => (long_side(call.out[p][1]) <=> long_side(call.out[q][1]))

-----------------------------------------------------------------------------
(* Properties of the indicators                                             *)

\* the row compute_features made of the last bar delivered
last_row_computed == computed[Len(computed)].row

\* C21: at every bar where the smoothed average loss is 0, whatever the
\* smoothed average gain (0 on a flat series), _rsi is 100 and not
\* undefined; at every other bar where the averages exist it is in [0, 100]
SaturatedWhenNoLoss ==
    ohlcv # <<>> =>
        /\ averages.dn = R(0) => last_row_computed.rsi = R(100)
        /\ (notna(averages.dn) /\ averages.dn # R(0)) =>
              /\ RLe(R(0), last_row_computed.rsi)
              /\ RLe(last_row_computed.rsi, R(100))

\* the series whose close rises on every bar and whose volume never changes
StrictlyRising == {Rising, RisingFast, Slowing, Quickening, WideRange}

\* 250 daily bars of such a series have been delivered and scanned
RisingScanned ==
    /\ shape \in StrictlyRising
    /\ Len(ohlcv) >= 250
    /\ call # EmptyDict

\* the score of the final bar, by compute_features and score_row
final_score == score_row(iloc_last(dropna(computed)))

breakout_points(r) ==
    (IF RLt(r.close_20_max, r.close) THEN 25 ELSE 0)
      - (IF RLt(r.close, r.close_20_min) THEN 25 ELSE 0)

VolumeAlwaysZero == {NoVolume, NoVolumeZigzag}

\* the 20-bar mean volume at the last bar delivered
vol_ma20_now == rolling_mean(as_float(series(ohlcv, "volume")), 20)

\* the message of an error entry, none if there is no error
message_of(error) == IF error = None THEN <<>> ELSE error[1].error

\* the last row has no volume z-score and dropna leaves it out
DroppedForItsVolume ==
    /\ ~notna(last_row_computed.vol_z)
    /\ dropna(computed) = dropna(SubSeq(computed, 1, Len(computed) - 1))

\* both scanners report the series as an error and score no row of it
ReportedAsError ==
    /\ call.out.scan_symbols.result = None
    /\ call.out.scan_symbols.error # None
    /\ call.out.scan_symbols.scored = {}
    /\ message_of(call.out.scan_symbols.error)
          = IF Len(ohlcv) < min_router_bars
            THEN <<"All data sources failed for ", "S1">>
            ELSE IF Len(ohlcv) < (IF call.input.is_crypto THEN 100 ELSE 200)
            THEN <<"Insufficient data">>
            ELSE <<"No valid data after feature computation">>
    /\ call.out.scan_universe.row = None
    /\ call.out.scan_universe.error # None
    /\ call.out.scan_universe.scored = {}
    /\ message_of(call.out.scan_universe.error)
          \in {<<"Not enough history">>, <<"Below min dollar vol">>,
               <<"Features empty after dropna()">>}

\* C29: at a bar where the 20-bar mean volume is 0 the volume z-score is
\* undefined and dropna drops the row; a series whose volume is 0 on every
\* bar has no usable row, and each scanner reports it as an error and never
\* as a result, whatever its prices: _scan_single_symbol with "No valid data
\* after feature computation" once it has the bars it asks for (before that
\* the series is refused for its length), scan_universe with its own text
ZeroVolumeIsAnError ==
    /\ (ohlcv # <<>> /\ vol_ma20_now = R(0)) => DroppedForItsVolume
    /\ shape \in VolumeAlwaysZero => dropna(computed) = <<>>
    /\ (shape \in VolumeAlwaysZero /\ call # EmptyDict) => ReportedAsError

\* 250 bars without volume whose prices go up and down, scanned as a crypto
\* symbol: no row is left and both scanners report the empty features
NoVolumeReportedAsError ==
    /\ shape = NoVolumeZigzag
    /\ Len(ohlcv) = 250
    /\ vol_ma20_now = R(0)
    /\ call # EmptyDict
    /\ call.input.is_crypto
    /\ call.out.scan_symbols.result = None
    /\ message_of(call.out.scan_symbols.error)
          = <<"No valid data after feature computation">>
    /\ message_of(call.out.scan_universe.error) = <<"Features empty after dropna()">>

====
